---- MODULE Spec2Model ----
(***************************************************************************)
(* Verification model of the acquisition core of vizier:                   *)
(*   vizier/_src/algorithms/designers/gp/acquisitions.py                   *)
(*     TrustRegion, TrustRegionWithCategorical,                            *)
(*     GPBanditAcquisitionBuilder, GPBanditMultiAcquisitionBuilder,        *)
(* and of the vectorized optimizer that maximizes the acquisition:         *)
(*   vizier/_src/algorithms/optimizers/vectorized_base.py                  *)
(*     VectorizedOptimizer.optimize,                                       *)
(* of the Ray Tune searcher over a Vizier study:                           *)
(*   vizier/_src/raytune/vizier_search.py  VizierSearch,                   *)
(* and of the serialization of experimenter factories:                     *)
(*   vizier/_src/benchmarks/experimenters/experimenter_factory.py.         *)
(*                                                                         *)
(* Numbers.  Radii, distances and acquisition values are binary floats,    *)
(* computed with the rounding of the program: float64 for Python floats    *)
(* (the trust radius), the precision of the arrays for jax computations    *)
(* (float32, or float64 under jax_enable_x64).  Feature values live on the *)
(* dyadic grid k / G (G = 2^14), so they and their differences are exact   *)
(* in both precisions.                                                     *)
(***************************************************************************)
EXTENDS Integers, Sequences, FiniteSets, TLC

VARIABLES
  kind,                  \* "single" | "multi": the builder class
  use_trust_region,      \* attr field use_trust_region
  acquisition_fns,       \* names (keys) of acquisition_fns, in dict order
  x64,                   \* jax_enable_x64: arrays are float64, else float32
  heap,                  \* ProblemStatement objects by reference
  built,                 \* self._built
  get_predictive_dist,   \* self._get_predictive_dist (closure of build #k, 0 unset)
  predict_on_array,      \* self._predict_on_array
  sample_on_array,       \* self._sample_on_array
  acquisition_on_array,  \* self._acquisition_on_array
  captured,              \* build arguments captured by the closures
  tr,                    \* self._tr, or a trust region built on its own
  tr_specs,              \* the output specs and padding tr was built from
  acquisition_problem,   \* self._acquisition_problem (heap reference, 0 unset)
  nbuilds,               \* number of build() calls so far
  last,                  \* the last call: operation, arguments, outcome
  opt,                   \* one VectorizedOptimizer.optimize call: arguments, locals, position
  srch,                  \* a VizierSearch object, the Vizier service and the checkpoint file
  fac                    \* an experimenter factory, its dumped metadata and what recover gave

vars == <<kind, use_trust_region, acquisition_fns, x64, heap, built,
          get_predictive_dist, predict_on_array, sample_on_array,
          acquisition_on_array, captured, tr, tr_specs, acquisition_problem,
          nbuilds, last, opt, srch, fac>>

----------------------------------------------------------------------------
(* Bounds of the model.                                                    *)

MaxRows == 2          \* distinct trusted rows drawn per build
Repeats == 10         \* rows of a trusted array large enough to end the gating
MaxPad == 1           \* padded feature columns
MaxBuilds == 2        \* build() calls per builder
MaxTrusted == 24      \* trusted rows of a trust region built on its own
MaxOneHot == 2        \* width of a one-hot block
MaxBatch == 2         \* suggestion_batch_size of the optimizer
MaxEvaluations == 4   \* max_evaluations of the optimizer
MaxCount == 2         \* count of an optimize call

G == 2^14             \* grid points per unit of a feature

----------------------------------------------------------------------------
(* Natural numbers of any size: sequences of limbs below 2^15, the least   *)
(* significant first, without a leading zero limb.                         *)

Limb == 2^15

Abs(x) == IF x < 0 THEN -x ELSE x

Replicate(n, x) == [i \in 1..n |-> x]

RECURSIVE Big(_)
Big(n) == IF n = 0 THEN <<>> ELSE <<n % Limb>> \o Big(n \div Limb)

RECURSIVE BigTrim(_)
BigTrim(a) ==
  IF a = <<>> \/ a[Len(a)] # 0 THEN a ELSE BigTrim(SubSeq(a, 1, Len(a) - 1))

Digit(a, i) == IF i <= Len(a) THEN a[i] ELSE 0

RECURSIVE BigAddFrom(_, _, _, _)
BigAddFrom(a, b, i, carry) ==
  IF i > Len(a) /\ i > Len(b) THEN (IF carry = 0 THEN <<>> ELSE <<carry>>)
  ELSE LET s == Digit(a, i) + Digit(b, i) + carry
       IN  <<s % Limb>> \o BigAddFrom(a, b, i + 1, s \div Limb)
BigAdd(a, b) == BigAddFrom(a, b, 1, 0)

\* a - b for a >= b.
RECURSIVE BigSubFrom(_, _, _, _)
BigSubFrom(a, b, i, borrow) ==
  IF i > Len(a) THEN <<>>
  ELSE LET s == Digit(a, i) - Digit(b, i) - borrow
       IN  <<(s + Limb) % Limb>> \o BigSubFrom(a, b, i + 1, IF s < 0 THEN 1 ELSE 0)
BigSub(a, b) == BigTrim(BigSubFrom(a, b, 1, 0))

\* -1, 0 or 1 as a is below, equal to or above b.
RECURSIVE BigCmpFrom(_, _, _)
BigCmpFrom(a, b, i) ==
  IF i = 0 THEN 0
  ELSE IF a[i] # b[i] THEN (IF a[i] < b[i] THEN -1 ELSE 1)
  ELSE BigCmpFrom(a, b, i - 1)
BigCmp(a, b) ==
  IF Len(a) # Len(b) THEN (IF Len(a) < Len(b) THEN -1 ELSE 1)
  ELSE BigCmpFrom(a, b, Len(a))

\* a * k for 0 <= k <= Limb.
RECURSIVE BigMulSmallFrom(_, _, _, _)
BigMulSmallFrom(a, k, i, carry) ==
  IF i > Len(a) THEN (IF carry = 0 THEN <<>> ELSE <<carry>>)
  ELSE LET s == a[i] * k + carry
       IN  <<s % Limb>> \o BigMulSmallFrom(a, k, i + 1, s \div Limb)
BigMulSmall(a, k) == IF k = 0 THEN <<>> ELSE BigMulSmallFrom(a, k, 1, 0)

\* a * Limb^n
ShiftLimbs(a, n) == IF a = <<>> THEN <<>> ELSE Replicate(n, 0) \o a

RECURSIVE BigMul(_, _)
BigMul(a, b) ==
  IF b = <<>> THEN <<>>
  ELSE BigAdd(BigMulSmall(a, Head(b)), ShiftLimbs(BigMul(a, Tail(b)), 1))

\* Quotient and remainder of a by k, 0 < k <= Limb.
RECURSIVE BigDivSmallFrom(_, _, _, _)
BigDivSmallFrom(a, k, i, r) ==
  IF i = 0 THEN [q |-> <<>>, r |-> r]
  ELSE LET cur == r * Limb + a[i]
           rest == BigDivSmallFrom(a, k, i - 1, cur % k)
       IN  [q |-> Append(rest.q, cur \div k), r |-> rest.r]
BigDivSmall(a, k) ==
  LET Trimmed(d) == [q |-> BigTrim(d.q), r |-> d.r]
  IN  Trimmed(BigDivSmallFrom(a, k, Len(a), 0))

\* The value of a, for a below 2^30.
BigToInt(a) == Digit(a, 1) + Limb * Digit(a, 2)

RECURSIVE BitLenSmall(_)
BitLenSmall(n) == IF n = 0 THEN 0 ELSE 1 + BitLenSmall(n \div 2)
LimbBits == BitLenSmall(Limb) - 1
BitLen(a) ==
  IF a = <<>> THEN 0 ELSE LimbBits * (Len(a) - 1) + BitLenSmall(a[Len(a)])

\* a * 2^j, and a \div 2^j with whether bits were lost.
ShiftLeft(a, j) == ShiftLimbs(BigMulSmall(a, 2^(j % LimbBits)), j \div LimbBits)
ShiftRight(a, j) ==
  LET Lost(w, d) == [q |-> d.q, inexact |-> d.r # 0 \/ \E i \in 1..w : a[i] # 0]
      Limbs(w) == Lost(w, BigDivSmall(SubSeq(a, w + 1, Len(a)), 2^(j % LimbBits)))
  IN  Limbs(IF j \div LimbBits < Len(a) THEN j \div LimbBits ELSE Len(a))

\* How many times 2 divides a > 0.
RECURSIVE TrailingZeros(_, _)
TrailingZeros(a, i) ==
  IF a[i] = 0 THEN LimbBits + TrailingZeros(a, i + 1)
  ELSE IF a[i] % 2 = 0 THEN 1 + TrailingZeros([a EXCEPT ![i] = a[i] \div 2], i)
  ELSE 0

----------------------------------------------------------------------------
(* Binary floating point.  A finite float is (-1)^s * m * 2^e with m odd   *)
(* (or zero), so equal values are equal records whatever the precision     *)
(* they were rounded to; p is the number of significand bits, 53 for       *)
(* float64 (Python floats, arrays under jax_enable_x64) and 24 for         *)
(* float32.  Every operation rounds to nearest, ties to even.              *)

F64 == 53
F32 == 24

FZero == [inf |-> FALSE, s |-> 0, m |-> <<>>, e |-> 0]
FInf(s) == [inf |-> TRUE, s |-> s, m |-> <<>>, e |-> 0]

\* The float of the exact value m * 2^e.
Canon(s, m, e) ==
  LET Odd(z) == [inf |-> FALSE, s |-> s, m |-> ShiftRight(m, z).q, e |-> e + z]
  IN  IF m = <<>> THEN FZero ELSE Odd(TrailingZeros(m, 1))

\* m * 2^e, plus less than one unit of m when inexact, rounded to p bits.
Round(s, m, e, inexact, p) ==
  LET Nearest(sh, half) ==
        IF half.r = 1 /\ (sh.inexact \/ inexact \/ Digit(half.q, 1) % 2 = 1)
        THEN BigAdd(half.q, <<1>>) ELSE half.q
      Halved(sh) == Nearest(sh, BigDivSmall(sh.q, 2))
      Kept(k) == IF k <= 0 THEN [m |-> m, e |-> e]
                 ELSE [m |-> Halved(ShiftRight(m, k - 1)), e |-> e + k]
      Exact(r) == Canon(s, r.m, r.e)
  IN  Exact(Kept(BitLen(m) - p))

FNeg(a) == IF a.m = <<>> /\ ~a.inf THEN a ELSE [a EXCEPT !.s = 1 - a.s]
FromInt(n) == Canon(IF n < 0 THEN 1 ELSE 0, Big(Abs(n)), 0)
Cast(a, p) == IF a.inf \/ BitLen(a.m) <= p THEN a ELSE Round(a.s, a.m, a.e, FALSE, p)

\* -1, 0 or 1 as |a| is below, equal to or above |b| (finite floats).
MagCmp(a, b) ==
  LET Aligned(e0) == BigCmp(ShiftLeft(a.m, a.e - e0), ShiftLeft(b.m, b.e - e0))
      Tops(ea, eb) == IF ea # eb THEN (IF ea < eb THEN -1 ELSE 1)
                      ELSE Aligned(IF a.e < b.e THEN a.e ELSE b.e)
  IN  IF a.m = <<>> \/ b.m = <<>>
      THEN (IF a.m = b.m THEN 0 ELSE IF a.m = <<>> THEN -1 ELSE 1)
      ELSE Tops(BitLen(a.m) + a.e, BitLen(b.m) + b.e)

FCmp(a, b) ==
  IF a.inf \/ b.inf
  THEN LET va == IF a.inf THEN 1 - 2 * a.s ELSE 0
           vb == IF b.inf THEN 1 - 2 * b.s ELSE 0
       IN  IF va < vb THEN -1 ELSE IF va > vb THEN 1 ELSE 0
  ELSE IF a.s # b.s
  THEN (IF a.m = <<>> /\ b.m = <<>> THEN 0 ELSE IF a.s = 1 THEN -1 ELSE 1)
  ELSE MagCmp(IF a.s = 0 THEN a ELSE b, IF a.s = 0 THEN b ELSE a)

FLe(a, b) == FCmp(a, b) <= 0
FLt(a, b) == FCmp(a, b) < 0
FMin(a, b) == IF FLe(a, b) THEN a ELSE b
FMax(a, b) == IF FLe(a, b) THEN b ELSE a

\* The sign and the size of (-1)^sa * x + (-1)^sb * y.
AddSigned(sa, x, sb, y) ==
  IF sa = sb THEN [s |-> sa, m |-> BigAdd(x, y)]
  ELSE IF BigCmp(x, y) >= 0 THEN [s |-> sa, m |-> BigSub(x, y)]
  ELSE [s |-> sb, m |-> BigSub(y, x)]

FAdd(a, b, p) ==
  LET Rounded(r, e0) == Round(r.s, r.m, e0, FALSE, p)
      Aligned(e0) == Rounded(AddSigned(a.s, ShiftLeft(a.m, a.e - e0),
                                       b.s, ShiftLeft(b.m, b.e - e0)), e0)
  IN  IF a.inf THEN a
      ELSE IF b.inf THEN b
      ELSE Aligned(IF a.e < b.e THEN a.e ELSE b.e)

FSub(a, b, p) == FAdd(a, FNeg(b), p)

FMul(a, b, p) ==
  IF a.inf \/ b.inf THEN FInf((a.s + b.s) % 2)
  ELSE Round((a.s + b.s) % 2, BigMul(a.m, b.m), a.e + b.e, FALSE, p)

\* a / b for finite a and b whose odd significand is one limb (a small
\* integer times a power of two).
FDiv(a, b, p) ==
  LET Rounded(d, k) == Round((a.s + b.s) % 2, d.q, a.e - b.e - k, d.r # 0, p)
      Scaled(k) == Rounded(BigDivSmall(ShiftLeft(a.m, k), b.m[1]), k)
  IN  Scaled(p + 2 + BitLen(b.m))

\* The float nearest to n / d: how a decimal literal is read.
FromRat(r, p) == FDiv(FromInt(r[1]), FromInt(r[2]), p)

FAbs(a) == [a EXCEPT !.s = 0]

\* The spacing of the floats of precision p around a.
Ulp(a, p) == [inf |-> FALSE, s |-> 0, m |-> <<1>>, e |-> BitLen(a.m) + a.e - p]

\* a and b are at most k floats of precision p apart.
Within(a, b, k, p) == FLe(FAbs(FSub(a, b, p)), FMul(FromInt(k), Ulp(b, p), p))

\* The precision of the arrays: float64 under jax_enable_x64, else float32.
Precision(is64) == IF is64 THEN F64 ELSE F32

Inf == FInf(0)

RECURSIVE SeqMin(_)
SeqMin(s) == IF Len(s) = 1 THEN s[1] ELSE FMin(s[1], SeqMin(Tail(s)))

RECURSIVE SeqMax(_)
SeqMax(s) == IF Len(s) = 1 THEN s[1] ELSE FMax(s[1], SeqMax(Tail(s)))

----------------------------------------------------------------------------
(* Exact fractions <<n, d>> in lowest terms, d > 0: what a formula is      *)
(* worth before any rounding.                                              *)

RECURSIVE GCD(_, _)
GCD(a, b) == IF b = 0 THEN a ELSE GCD(b, a % b)

Rat(n, d) == LET g == GCD(Abs(n), d) IN <<n \div g, d \div g>>
RatAdd(a, b) == Rat(a[1] * b[2] + b[1] * a[2], a[2] * b[2])
RatMul(a, b) == Rat(a[1] * b[1], a[2] * b[2])

\* A feature value or a difference of two: k grid steps, exact in float32.
GridValues == [k \in 0..G |-> FDiv(FromInt(k), FromInt(G), F32)]
Grid(k) == GridValues[k]

----------------------------------------------------------------------------
(* Optional arrays (None or an array).                                     *)

None == [is_none |-> TRUE, val |-> <<>>]
Some(v) == [is_none |-> FALSE, val |-> v]

(* Results of calls that may raise.                                        *)
Ok(v) == [ok |-> TRUE, val |-> v, err |-> ""]
Raise(e) == [ok |-> FALSE, val |-> <<>>, err |-> e]

----------------------------------------------------------------------------
(* converters.NumpyArraySpec: the type and the number of encoded columns.  *)

Continuous == [type |-> "CONTINUOUS", num_dimensions |-> 1]
OneHot(n) == [type |-> "ONEHOT_EMBEDDING", num_dimensions |-> n]

\* Number of feature columns the specs encode.
RECURSIVE NumColumns(_)
NumColumns(specs) ==
  IF specs = <<>> THEN 0 ELSE Head(specs).num_dimensions + NumColumns(Tail(specs))

----------------------------------------------------------------------------
(* TrustRegion                                                             *)

DimensionFactor == 5
MinRadius == FromRat(Rat(2, 10), F64)
Half == FromRat(Rat(5, 10), F64)

\* The feasible/infeasible weighting of the trusted rows.
WeightedCount(n) ==
  FAdd(FMul(FromRat(Rat(1, 10), F64), FromInt(n), F64),
       FMul(FromRat(Rat(9, 10), F64), FromInt(n), F64), F64)

\* TrustRegion._compute_trust_radius; trusted.shape[0] is Len(trusted).
\* (ComputeTrustRadiusClamped: the variant that stops at 0.5.)
ComputeTrustRadiusClamped(trusted, dof) ==
  LET trust_level == FDiv(WeightedCount(Len(trusted)),
                          FMul(FromInt(DimensionFactor), FromInt(dof + 1), F64), F64)
  IN  FMin(Half, FAdd(MinRadius,
                      FMul(FSub(Half, MinRadius, F64), trust_level, F64), F64))
ComputeTrustRadius(trusted, dof) ==
  LET trust_level == FDiv(WeightedCount(Len(trusted)),
                          FMul(FromInt(DimensionFactor), FromInt(dof + 1), F64), F64)
  IN  FAdd(MinRadius, FMul(FSub(Half, MinRadius, F64), trust_level, F64), F64)

\* The per-column caps on the distance, built by TrustRegion.__init__.
RECURSIVE SpecCaps(_, _)
SpecCaps(specs, radius) ==
  IF specs = <<>> THEN <<>>
  ELSE (IF Head(specs).type = "ONEHOT_EMBEDDING"
        THEN Replicate(Head(specs).num_dimensions, radius)
        ELSE <<Inf>>) \o SpecCaps(Tail(specs), radius)

MaxDistances(specs, radius, feature_is_missing) ==
  LET caps == SpecCaps(specs, radius)
      extra == IF feature_is_missing.is_none THEN 0
               ELSE Len(feature_is_missing.val) - Len(caps)
  IN  caps \o Replicate(IF extra > 0 THEN extra ELSE 0, FZero)

\* self._dof = len(specs): one per output spec.  (DofColumns: the variant
\* counting the columns the specs encode.)
DofColumns(specs) == NumColumns(specs)
Dof(specs) == Len(specs)

\* TrustRegion.__init__  (TrustRegionInitUnmasked: the variant that drops
\* feature_is_missing.)
TrustRegionInitUnmasked(trusted, specs, feature_is_missing, observations_is_missing) ==
  [cls |-> "TrustRegion",
   trusted |-> trusted,
   dof |-> Dof(specs),
   trust_radius |-> ComputeTrustRadius(trusted, Dof(specs)),
   feature_is_missing |-> None,
   observations_is_missing |-> observations_is_missing,
   max_distances |-> SpecCaps(specs, ComputeTrustRadius(trusted, Dof(specs)))]
TrustRegionInit(trusted, specs, feature_is_missing, observations_is_missing) ==
  LET Object(dof, radius) ==
        [cls |-> "TrustRegion",
         trusted |-> trusted,
         dof |-> dof,
         trust_radius |-> radius,
         feature_is_missing |-> feature_is_missing,
         observations_is_missing |-> observations_is_missing,
         max_distances |-> MaxDistances(specs, radius, feature_is_missing)]
  IN  Object(Dof(specs), ComputeTrustRadius(trusted, Dof(specs)))

\* jnp.where(mask, 0.0, row) on one row.
MaskRow(mask, row) ==
  IF mask.is_none THEN row
  ELSE [d \in 1..Len(row) |-> IF mask.val[d] THEN 0 ELSE row[d]]

\* |trusted - x| for one pair of rows, as distances.
AbsDiff(t, x) == [d \in 1..Len(x) |-> Grid(Abs(t[d] - x[d]))]

\* jnp.where(observations_is_missing[..., newaxis], inf, distances) on the
\* distances to trusted row n.
MaskObservation(obs_mask, n, dists) ==
  IF obs_mask.is_none THEN dists
  ELSE IF obs_mask.val[n] THEN [d \in 1..Len(dists) |-> Inf] ELSE dists

\* self._max_distances as an array of the precision of the arrays.
CapsArray(t) ==
  [d \in 1..Len(t.max_distances) |-> Cast(t.max_distances[d], Precision(x64))]

\* jnp.minimum(distances, self._max_distances) on one row of distances; a
\* single cap broadcasts over the columns.  (BoundUncapped: the variant
\* without the caps.)
BoundUncapped(dists, caps) == dists
Bound(dists, caps) ==
  [d \in 1..Len(dists) |-> FMin(dists[d], caps[IF Len(caps) = 1 THEN 1 ELSE d])]

\* Whether arrays of a and b columns broadcast against each other.
Broadcasts(a, b) == a = b \/ a = 1 \/ b = 1

\* The L-inf distance of query row x to trusted row n.
LinfToRow(t, caps, x, n) ==
  LET tn == MaskRow(t.feature_is_missing, t.trusted[n])
      xm == MaskRow(t.feature_is_missing, x)
      dists == MaskObservation(t.observations_is_missing, n, AbsDiff(tn, xm))
  IN  SeqMax(Bound(dists, caps))

\* jnp.min(linf_distance, axis=-1): the closest trusted row (MaxOverTrusted:
\* the variant reducing to the farthest row).
MaxOverTrusted(linf_distance) == SeqMax(linf_distance)
MinOverTrusted(linf_distance) == SeqMin(linf_distance)

\* TrustRegion.min_linf_distance on a batch xs.  Columns that do not broadcast
\* against the caps raise; reducing over an empty axis raises (jnp.min and
\* jnp.max have no identity).
TrustRegionMinLinfDistance(t, xs) ==
  IF \E m \in 1..Len(xs) : ~Broadcasts(Len(xs[m]), Len(t.max_distances))
  THEN Raise("TypeError: incompatible shapes for broadcasting")
  ELSE IF Len(t.trusted) = 0 \/ (\E m \in 1..Len(xs) : Len(xs[m]) = 0)
  THEN Raise("ValueError: zero-size array to reduction operation")
  ELSE LET caps == CapsArray(t)
       IN  Ok([m \in 1..Len(xs) |->
                MinOverTrusted([n \in 1..Len(t.trusted) |->
                                 LinfToRow(t, caps, xs[m], n)])])

----------------------------------------------------------------------------
(* TrustRegionWithCategorical                                              *)

\* A ContinuousAndCategoricalArray: two arrays sharing the row index.
CC(cont, ncont, cat, ncat) ==
  [form |-> "cc", rows |-> <<>>, ncols |-> 0,
   continuous |-> cont, ncont |-> ncont, categorical |-> cat, ncat |-> ncat]

\* A plain feature array (types.Array) of ncols columns.
Array(rows, ncols) ==
  [form |-> "array", rows |-> rows, ncols |-> ncols,
   continuous |-> <<>>, ncont |-> 0, categorical |-> <<>>, ncat |-> 0]

\* TrustRegionWithCategorical._compute_trust_radius; the row count is that of
\* the first leaf (continuous).
ComputeTrustRadiusCat(trusted, min_radius, dimension_factor, dof) ==
  LET num_trusted_obs == Len(trusted.continuous)
      trust_level == FDiv(FromInt(num_trusted_obs),
                          FMul(FromInt(dimension_factor), FromInt(dof + 1), F64),
                          F64)
  IN  FAdd(min_radius, FMul(FSub(Half, min_radius, F64), trust_level, F64), F64)

\* TrustRegionWithCategorical.__init__
TrustRegionWithCategoricalInit(trusted, min_radius, dimension_factor) ==
  LET dof == trusted.ncont + trusted.ncat
  IN  [cls |-> "TrustRegionWithCategorical",
       trusted |-> trusted,
       min_radius |-> min_radius,
       dimension_factor |-> dimension_factor,
       dof |-> dof,
       trust_radius |-> ComputeTrustRadiusCat(trusted, min_radius,
                                              dimension_factor, dof),
       max_distance_cont |-> Replicate(trusted.ncont, Inf)]

\* TrustRegionWithCategorical.min_linf_distance: continuous columns only.
TrustRegionWithCategoricalMinLinfDistance(t, xs) ==
  IF Len(t.trusted.continuous) = 0 \/ t.trusted.ncont = 0
  THEN Raise("ValueError: zero-size array to reduction operation")
  ELSE Ok([m \in 1..Len(xs.continuous) |->
            SeqMin([n \in 1..Len(t.trusted.continuous) |->
                     SeqMax(AbsDiff(t.trusted.continuous[n], xs.continuous[m]))])])

\* self._tr.min_linf_distance(xs), dispatched on the class of self._tr.
MinLinfDistance(t, xs) ==
  IF t.cls = "TrustRegion" THEN TrustRegionMinLinfDistance(t, xs)
  ELSE TrustRegionWithCategoricalMinLinfDistance(t, xs)

\* No trust region yet: the attribute self._tr does not exist.
NoTR == [cls |-> "unset"]

----------------------------------------------------------------------------
(* The penalty of a row out of the trust region.                           *)

\* The literal 1e12.
E12 == Canon(0, BigMul(Big(10^6), Big(10^6)), 0)

\* -1e12 in float32 and in float64.
MinusE12 == [p \in {F32, F64} |-> FNeg(Cast(E12, p))]

\* -1e12 - distance in the precision of the arrays.
Penalty(distance, is64) ==
  FSub(MinusE12[Precision(is64)], distance, Precision(is64))

----------------------------------------------------------------------------
(* vz.ProblemStatement objects live in a heap, so that a copy and an alias *)
(* differ.                                                                  *)

Metric(name, goal) == [name |-> name, goal |-> goal]
Problem(metrics) == [allocated |-> TRUE, search_space |-> "search_space",
                     metric_information |-> metrics]
Unallocated == [allocated |-> FALSE, search_space |-> "",
                metric_information |-> <<>>]

\* The problems the caller owns, and the references of the heap.
CallerProblems ==
  << Problem(<<Metric("objective", "MINIMIZE")>>),
     Problem(<<Metric("acquisition", "MAXIMIZE")>>),
     Problem(<<Metric("accuracy", "MAXIMIZE"), Metric("latency", "MINIMIZE")>>) >>
CallerRefs == 1..Len(CallerProblems)
Refs == 1..(Len(CallerProblems) + MaxBuilds)

FreshRef(h) == CHOOSE r \in Refs : ~h[r].allocated /\ \A q \in Refs : q < r => h[q].allocated

\* copy.deepcopy(problem): the new reference and the heap holding the copy.
\* (AliasCopy: the variant that returns the same object.)
AliasCopy(h, ref) == [ref |-> ref, heap |-> h]
DeepCopy(h, ref) ==
  LET r == FreshRef(h) IN [ref |-> r, heap |-> [h EXCEPT ![r] = h[ref]]]

\* acquisition_problem.metric_information = config
SetMetricInformation(h, ref, config) ==
  [h EXCEPT ![ref].metric_information = config]

\* The MetricsConfig each builder writes.
SingleConfig == <<Metric("acquisition", "MAXIMIZE")>>
MultiConfig(names) == [i \in 1..Len(names) |-> Metric(names[i], "MAXIMIZE")]

----------------------------------------------------------------------------
(* The builders.                                                           *)

NotBuilt == "ValueError: Acquisition must be built first via build()."
Unsupported == "ValueError: does not support trust region with continuous and categorical."

Call(op, arg, res) == [op |-> op, arg |-> arg, ok |-> res.ok, ret |-> res.val,
                       err |-> res.err]

\* The shape of the features a build captured, with the specs and padding
\* they were encoded under.
Shape(features, specs, pad) ==
  [form |-> features.form, ncols |-> features.ncols, ncont |-> features.ncont,
   ncat |-> features.ncat, specs |-> specs, pad |-> pad]

\* GPBanditAcquisitionBuilder.build
BuildSingle(problem, features, specs, pad, observations_is_missing, feature_is_missing) ==
  /\ kind = "single"
  /\ nbuilds < MaxBuilds
  /\ LET id == nbuilds + 1
         copy == DeepCopy(heap, problem)
     IN  /\ nbuilds' = id
         /\ get_predictive_dist' = id
         /\ predict_on_array' = id
         /\ sample_on_array' = id
         /\ tr' = IF use_trust_region
                  THEN IF features.form = "array"
                       THEN TrustRegionInit(features.rows, specs, feature_is_missing,
                                            observations_is_missing)
                       ELSE TrustRegionWithCategoricalInit(features, MinRadius,
                                                           DimensionFactor)
                  ELSE tr
         /\ tr_specs' = IF use_trust_region THEN [specs |-> specs, pad |-> pad]
                        ELSE tr_specs
         /\ acquisition_on_array' = id
         /\ captured' = Append(captured, Shape(features, specs, pad))
         /\ heap' = SetMetricInformation(copy.heap, copy.ref,
                                         SingleConfig)
         /\ acquisition_problem' = copy.ref
         /\ built' = TRUE
         /\ last' = Call("build", [problem |-> problem, before |-> heap[problem]],
                         Ok(<<>>))
  /\ UNCHANGED <<kind, use_trust_region, acquisition_fns, x64, opt, srch, fac>>

\* The trust region of GPBanditMultiAcquisitionBuilder.build: the masks are
\* dropped, and the continuous-and-categorical form raises.
\* (MultiTrustRegionLikeSingle: the variant that builds the region the single
\* builder builds for that form.)
MultiTrustRegionLikeSingle(features, specs) ==
  IF features.form = "array"
  THEN Ok(TrustRegionInit(features.rows, specs, None, None))
  ELSE Ok(TrustRegionWithCategoricalInit(features, MinRadius, DimensionFactor))
MultiTrustRegion(features, specs) ==
  IF features.form = "array"
  THEN Ok(TrustRegionInit(features.rows, specs, None, None))
  ELSE Raise(Unsupported)

\* GPBanditMultiAcquisitionBuilder.build: a raise of the trust region comes
\* after the predictive closures have been stored.
BuildMulti(problem, features, specs, pad, observations_is_missing, feature_is_missing) ==
  /\ kind = "multi"
  /\ nbuilds < MaxBuilds
  /\ LET id == nbuilds + 1
         copy == DeepCopy(heap, problem)
         Define(region) ==
           IF ~region.ok
           THEN /\ last' = Call("build",
                                [problem |-> problem, before |-> heap[problem]],
                                Raise(region.err))
                /\ UNCHANGED <<tr, tr_specs, acquisition_on_array, heap,
                               acquisition_problem, built>>
           ELSE /\ tr' = region.val
                /\ tr_specs' = IF use_trust_region
                               THEN [specs |-> specs, pad |-> pad]
                               ELSE tr_specs
                /\ acquisition_on_array' = id
                /\ heap' = SetMetricInformation(copy.heap, copy.ref,
                                                MultiConfig(acquisition_fns))
                /\ acquisition_problem' = copy.ref
                /\ built' = TRUE
                /\ last' = Call("build",
                                [problem |-> problem, before |-> heap[problem]],
                                Ok(<<>>))
     IN  /\ nbuilds' = id
         /\ get_predictive_dist' = id
         /\ predict_on_array' = id
         /\ sample_on_array' = id
         /\ captured' = Append(captured, Shape(features, specs, pad))
         /\ Define(IF use_trust_region THEN MultiTrustRegion(features, specs)
                   ELSE Ok(tr))
  /\ UNCHANGED <<kind, use_trust_region, acquisition_fns, x64, opt, srch, fac>>

\* What every accessor checks first.  (GuardNone: the variant without the
\* test.)
GuardNone(value) == Ok(value)
Guard(value) == IF ~built THEN Raise(NotBuilt) ELSE Ok(value)

Frame == UNCHANGED <<kind, use_trust_region, acquisition_fns, x64, heap, built,
                     get_predictive_dist, predict_on_array, sample_on_array,
                     acquisition_on_array, captured, tr, tr_specs,
                     acquisition_problem, nbuilds, opt, srch, fac>>

\* property acquisition_problem
GetAcquisitionProblem ==
  /\ last' = Call("acquisition_problem", <<>>, Guard(<<acquisition_problem>>))
  /\ Frame

\* property acquisition_on_array
GetAcquisitionOnArray ==
  /\ last' = Call("acquisition_on_array", <<>>, Guard(<<acquisition_on_array>>))
  /\ Frame

\* property predict_on_array
GetPredictOnArray ==
  /\ last' = Call("predict_on_array", <<>>, Guard(<<predict_on_array>>))
  /\ Frame

\* property sample_on_array
GetSampleOnArray ==
  /\ last' = Call("sample_on_array", <<>>, Guard(<<sample_on_array>>))
  /\ Frame

\* property metadata_dict: {} without a trust region, else the radius.
GetMetadataDict ==
  /\ last' = Call("metadata_dict", <<>>,
                  IF ~built THEN Raise(NotBuilt)
                  ELSE IF ~use_trust_region THEN Ok(<<>>)
                  ELSE Ok(<<tr.trust_radius>>))
  /\ Frame

\* jnp.where(distance <= radius, acquisition, -1e12 - distance) on one row.
\* (GateStrict: the variant with distance < radius.)
GateStrict(distance, radius, acquisition, is64) ==
  IF FLt(distance, Cast(radius, Precision(is64))) THEN acquisition
  ELSE Penalty(distance, is64)
Gate(distance, radius, acquisition, is64) ==
  IF FLe(distance, Cast(radius, Precision(is64))) THEN acquisition
  ELSE Penalty(distance, is64)

\* use_trust_region and self._tr.trust_radius < 0.5
GatingActive(use_tr, t) == use_tr /\ FLt(t.trust_radius, Half)

\* The closure acquisition_on_array(xs) of a build.  acq[f][m] is the value of
\* acquisition function f on row m (one function for the single builder);
\* jnp.stack of no arrays raises.
AcquisitionOnArray(xs, acq) ==
  IF Len(acq) = 0 THEN Raise("ValueError: Need at least one array to stack.")
  ELSE IF GatingActive(use_trust_region, tr)
  THEN LET Gated(distance) ==
             IF ~distance.ok THEN Raise(distance.err)
             ELSE Ok([f \in 1..Len(acq) |-> [m \in 1..Len(acq[f]) |->
                       Gate(distance.val[m], tr.trust_radius, acq[f][m], x64)]])
       IN  Gated(MinLinfDistance(tr, xs))
  ELSE Ok(acq)

\* builder.acquisition_on_array(xs): the accessor, then the closure.
CallAcquisitionOnArray(xs, acq) ==
  /\ last' = Call("acquisition_on_array(xs)", [xs |-> xs, acq |-> acq],
                  IF ~Guard(<<>>).ok THEN Guard(<<>>)
                  ELSE AcquisitionOnArray(xs, acq))
  /\ Frame

----------------------------------------------------------------------------
(* Bounded inputs.                                                         *)

\* Values of a continuous column: 0 and 1/2; FineVals adds the next grid
\* point above 1/2.
ContVals == {0, G \div 2}
FineVals == {0, G \div 2, G \div 2 + 1}
\* What a padded column of a trusted array holds, and of a query.
PadTrusted == G \div 4
PadVals == {0, G \div 4}
CatCodes == {0, 1}

SpecLists == {<<Continuous>>, <<OneHot(MaxOneHot)>>, <<Continuous, OneHot(MaxOneHot)>>,
              <<OneHot(MaxOneHot), Continuous>>}
PadWidths == 0..MaxPad

OneHotRows(n) == {[i \in 1..n |-> IF i = j THEN G ELSE 0] : j \in 1..n}
SpecRows(spec, vals) ==
  IF spec.type = "ONEHOT_EMBEDDING" THEN OneHotRows(spec.num_dimensions)
  ELSE {<<v>> : v \in vals}

RECURSIVE RowsOf(_, _)
RowsOf(specs, vals) ==
  IF specs = <<>> THEN {<<>>}
  ELSE {a \o b : a \in SpecRows(Head(specs), vals), b \in RowsOf(Tail(specs), vals)}

TrustedRows(specs, pad) ==
  {r \o Replicate(pad, PadTrusted) : r \in RowsOf(specs, ContVals)}
QueryRows(specs, pad, vals) ==
  {r \o Replicate(pad, v) : r \in RowsOf(specs, vals), v \in PadVals}

\* The rows of S in some fixed order.
RECURSIVE SeqOf(_)
SeqOf(S) ==
  IF S = {} THEN <<>>
  ELSE LET x == CHOOSE y \in S : TRUE IN <<x>> \o SeqOf(S \ {x})

\* Arrays of up to n rows: runs of the rows of S in that order, from any row
\* on and around.
ArraysUpTo(S, n) ==
  LET rows == SeqOf(S)
  IN  {[i \in 1..k |-> rows[((start + i - 2) % Len(rows)) + 1]] :
         start \in 1..Len(rows), k \in 0..n}

\* feature_is_missing: None without padding, else the padded columns.
FeatureMasks(specs, pad) ==
  LET std == Some([d \in 1..(NumColumns(specs) + pad) |-> d > NumColumns(specs)])
  IN  IF pad = 0 THEN {None, std} ELSE {std}

\* observations_is_missing for the trusted rows.
ObservationMasks(trusted) ==
  {None} \cup {Some(m) : m \in [1..Len(trusted) -> BOOLEAN]}

----------------------------------------------------------------------------
(* Trust regions built on their own.                                       *)

BuilderFrame == UNCHANGED <<kind, use_trust_region, acquisition_fns, x64, heap,
                            built, get_predictive_dist, predict_on_array,
                            sample_on_array, acquisition_on_array, captured,
                            acquisition_problem, nbuilds, opt, srch, fac>>

\* tr = TrustRegion(trusted, specs, feature_is_missing=..., observations_is_missing=...)
NewTrustRegion(trusted, specs, pad, feature_is_missing, observations_is_missing) ==
  /\ tr.cls = "unset"
  /\ tr' = TrustRegionInit(trusted, specs, feature_is_missing, observations_is_missing)
  /\ tr_specs' = [specs |-> specs, pad |-> pad]
  /\ last' = Call("TrustRegion", <<>>, Ok(<<>>))
  /\ BuilderFrame

\* tr = TrustRegionWithCategorical(trusted, min_radius, dimension_factor)
NewTrustRegionWithCategorical(trusted, min_radius, dimension_factor) ==
  /\ tr.cls = "unset"
  /\ tr' = TrustRegionWithCategoricalInit(trusted, min_radius, dimension_factor)
  /\ tr_specs' = [specs |-> <<>>, pad |-> 0]
  /\ last' = Call("TrustRegionWithCategorical", <<>>, Ok(<<>>))
  /\ BuilderFrame

\* tr.min_linf_distance(xs)
CallMinLinfDistance(xs) ==
  /\ tr.cls # "unset"
  /\ last' = Call("min_linf_distance", [xs |-> xs], MinLinfDistance(tr, xs))
  /\ UNCHANGED <<tr, tr_specs>>
  /\ BuilderFrame

----------------------------------------------------------------------------
(* Specifications.                                                         *)

InitHeap ==
  [r \in Refs |-> IF r \in CallerRefs THEN CallerProblems[r] ELSE Unallocated]

NoSpecs == [specs |-> <<>>, pad |-> 0]

\* No optimize call is in progress.
NoOptimizer == [pc |-> "none"]

\* No searcher has been constructed, and no factory.
NoSearcher == [pc |-> "none"]
NoFactory == [pc |-> "none"]

InitObject ==
  /\ heap = InitHeap
  /\ built = FALSE
  /\ get_predictive_dist = 0
  /\ predict_on_array = 0
  /\ sample_on_array = 0
  /\ acquisition_on_array = 0
  /\ captured = <<>>
  /\ tr = NoTR
  /\ tr_specs = NoSpecs
  /\ acquisition_problem = 0
  /\ nbuilds = 0
  /\ last = Call("__init__", <<>>, Ok(<<>>))

\* Configured minimum radii and dimension factors of TrustRegionWithCategorical.
MinRadii == {MinRadius, FromRat(Rat(1, 10), F64), FromRat(Rat(6, 10), F64)}
DimensionFactors == {DimensionFactor, 2}

ZeroRow(specs) == CHOOSE r \in TrustedRows(specs, 0) : TRUE

\* ContinuousAndCategorical arrays of n rows.
CCRows(ncont, ncat, vals) ==
  {<<c, k>> : c \in [1..ncont -> vals], k \in [1..ncat -> CatCodes]}
CCOf(rows, ncont, ncat) ==
  CC([i \in 1..Len(rows) |-> rows[i][1]], ncont,
     [i \in 1..Len(rows) |-> rows[i][2]], ncat)
CCShapes == {<<1, 0>>, <<1, 1>>, <<0, 1>>, <<2, 1>>}

\* Query batches of m rows for features of the given shape.
QueryBatches(shape, m, vals) ==
  IF shape.form = "array"
  THEN [1..m -> QueryRows(shape.specs, shape.pad, vals)]
  ELSE {CCOf(rows, shape.ncont, shape.ncat) :
          rows \in [1..m -> CCRows(shape.ncont, shape.ncat, vals)]}

TrShape ==
  IF tr.cls = "TrustRegion"
  THEN Shape(Array(tr.trusted, 0), tr_specs.specs, tr_specs.pad)
  ELSE Shape(tr.trusted, <<>>, 0)

InitTR ==
  /\ kind = "none"
  /\ use_trust_region = FALSE
  /\ acquisition_fns = <<>>
  /\ x64 \in BOOLEAN
  /\ InitObject
  /\ opt = NoOptimizer
  /\ srch = NoSearcher
  /\ fac = NoFactory

\* The arguments of TrustRegion(...): up to MaxRows trusted rows under every
\* mask, and up to MaxTrusted copies of one row without masks.
MaskedRegions(specs, pad) ==
  UNION {{[trusted |-> base, specs |-> specs, pad |-> pad,
           feature_is_missing |-> fm, observations_is_missing |-> om] :
            fm \in FeatureMasks(specs, pad), om \in ObservationMasks(base)} :
         base \in ArraysUpTo(TrustedRows(specs, pad), MaxRows)}
SmallRegions == UNION {MaskedRegions(specs, pad) : specs \in SpecLists, pad \in PadWidths}
LargeRegions ==
  {[trusted |-> Replicate(n, ZeroRow(specs)), specs |-> specs, pad |-> 0,
    feature_is_missing |-> None, observations_is_missing |-> None] :
     specs \in SpecLists, n \in 0..MaxTrusted}

NewContinuousTrustRegion ==
  /\ tr.cls = "unset"
  /\ \E r \in SmallRegions \cup LargeRegions :
       NewTrustRegion(r.trusted, r.specs, r.pad, r.feature_is_missing,
                      r.observations_is_missing)

\* The trusted points of TrustRegionWithCategorical(...): up to MaxRows rows,
\* and up to MaxTrusted copies of one row.
CategoricalArrays(ncont, ncat) ==
  {CCOf(rows, ncont, ncat) :
     rows \in ArraysUpTo(CCRows(ncont, ncat, ContVals), MaxRows)
               \cup {Replicate(n, CHOOSE r \in CCRows(ncont, ncat, ContVals) : TRUE) :
                        n \in 0..MaxTrusted}}

NewCategoricalTrustRegion ==
  /\ tr.cls = "unset"
  /\ \E shape \in CCShapes, mr \in MinRadii, df \in DimensionFactors :
       \E trusted \in CategoricalArrays(shape[1], shape[2]) :
         NewTrustRegionWithCategorical(trusted, mr, df)

QueryDistance ==
  /\ tr.cls # "unset"
  /\ last.op # "min_linf_distance"
  /\ \E xs \in QueryBatches(TrShape, 1, ContVals) : CallMinLinfDistance(xs)

NextTR ==
  \/ NewContinuousTrustRegion
  \/ NewCategoricalTrustRegion
  \/ QueryDistance

SpecTR == InitTR /\ [][NextTR]_vars

\* The builder as constructed: its class, its attr fields and the precision.
FnLists(k) ==
  IF k = "single" THEN {<<"acquisition_fn">>}
  ELSE {<<>>, <<"ucb">>, <<"ucb", "ei">>}

InitBuilder ==
  /\ kind \in {"single", "multi"}
  /\ use_trust_region \in BOOLEAN
  /\ acquisition_fns \in FnLists(kind)
  /\ x64 \in BOOLEAN
  /\ InitObject
  /\ opt = NoOptimizer
  /\ srch = NoSearcher
  /\ fac = NoFactory

Build(problem, features, specs, pad, observations_is_missing, feature_is_missing) ==
  \/ BuildSingle(problem, features, specs, pad, observations_is_missing,
                 feature_is_missing)
  \/ BuildMulti(problem, features, specs, pad, observations_is_missing,
                feature_is_missing)

\* Values an acquisition function returns: an ordinary one and one below
\* -1e12.
AcqVals == {Grid(3), FNeg(FMul(FromInt(2), E12, Precision(x64)))}

\* Acquisition values of a batch of m rows, one row of values per function
\* (the single builder has one function); the functions after the first are
\* constant over the batch.
AcqArrays(m, vals) ==
  {[f \in 1..Len(acquisition_fns) |-> [i \in 1..m |-> IF f = 1 THEN a[i] ELSE b]] :
     a \in [1..m -> vals], b \in vals}

\* The shape of the batches the caller passes: that of the features of the
\* build whose acquisition closure is in use, else of the last build.
QueryShape ==
  captured[IF acquisition_on_array # 0 THEN acquisition_on_array ELSE nbuilds]

(* The builder's life: builds and reads of every accessor.                 *)

LifeFeatures ==
  {Array(<<>>, 1), Array(<<<<0>>>>, 1), Array(<<<<0>>, <<G \div 2>>>>, 1),
   CC(<<<<0>>>>, 1, <<<<1>>>>, 1)}

BuildLife ==
  /\ nbuilds < MaxBuilds
  /\ \E problem \in CallerRefs, features \in LifeFeatures :
       Build(problem, features, <<Continuous>>, 0, None, None)

CallLife ==
  /\ nbuilds > 0
  /\ \E xs \in QueryBatches(QueryShape, 1, {G \div 2}),
        acq \in AcqArrays(1, {Grid(3)}) :
       CallAcquisitionOnArray(xs, acq)

Next ==
  \/ BuildLife
  \/ GetAcquisitionProblem
  \/ GetAcquisitionOnArray
  \/ GetPredictOnArray
  \/ GetSampleOnArray
  \/ GetMetadataDict
  \/ CallLife

Spec == InitBuilder /\ [][Next]_vars

(* One build and the gated acquisition on query batches.                   *)

GateSpecLists == {<<Continuous>>, <<OneHot(MaxOneHot)>>,
                  <<Continuous, OneHot(MaxOneHot)>>}
BatchSizes == {1, 2}

\* The features a build is given: arrays of no or one trusted row under every
\* mask, ContinuousAndCategorical arrays of no or one row, and Repeats rows,
\* enough for a radius of 0.5 or more.
ArrayFeatures(specs) ==
  UNION {{[features |-> Array(base, NumColumns(specs)), specs |-> specs,
           observations_is_missing |-> om] : om \in ObservationMasks(base)} :
         base \in ArraysUpTo(TrustedRows(specs, 0), 1)}
CCFeatures ==
  UNION {{[features |-> CCOf(rows, shape[1], shape[2]), specs |-> <<>>,
           observations_is_missing |-> None] :
            rows \in ArraysUpTo(CCRows(shape[1], shape[2], ContVals), 1)} :
         shape \in CCShapes}
ManyFeatures ==
  {[features |-> Array(Replicate(Repeats, <<0>>), 1), specs |-> <<Continuous>>,
    observations_is_missing |-> Some(Replicate(Repeats, FALSE))],
   [features |-> CCOf(Replicate(Repeats, <<<<0>>, <<>>>>), 1, 0), specs |-> <<>>,
    observations_is_missing |-> None]}
GateFeatures ==
  UNION {ArrayFeatures(specs) : specs \in GateSpecLists} \cup CCFeatures \cup ManyFeatures

BuildGate ==
  /\ nbuilds = 0
  /\ \E b \in GateFeatures :
       Build(1, b.features, b.specs, 0, b.observations_is_missing, None)

CallGate ==
  /\ nbuilds > 0
  /\ last.op = "build"
  /\ \E m \in BatchSizes :
       \E xs \in QueryBatches(QueryShape, m, FineVals),
          acq \in AcqArrays(m, AcqVals) :
         CallAcquisitionOnArray(xs, acq)

NextGate ==
  \/ BuildGate
  \/ CallGate

SpecGate == InitBuilder /\ [][NextGate]_vars

(* One build on padded features and the gated acquisition on batches that  *)
(* fill the padded columns.                                                *)

\* Feature arrays of no or one trusted row with padded columns, and the mask
\* that flags them.
PaddedFeatures ==
  UNION {{[features |-> Array(base, NumColumns(specs) + pad), specs |-> specs,
           pad |-> pad, feature_is_missing |-> fm] :
            base \in ArraysUpTo(TrustedRows(specs, pad), 1),
            fm \in FeatureMasks(specs, pad)} :
         specs \in GateSpecLists, pad \in 1..MaxPad}

BuildPadded ==
  /\ nbuilds = 0
  /\ \E b \in PaddedFeatures :
       Build(1, b.features, b.specs, b.pad, None, b.feature_is_missing)

CallPadded ==
  /\ nbuilds > 0
  /\ last.op = "build"
  /\ \E xs \in QueryBatches(QueryShape, 1, FineVals),
        acq \in AcqArrays(1, {Grid(3)}) :
       CallAcquisitionOnArray(xs, acq)

NextPad ==
  \/ BuildPadded
  \/ CallPadded

SpecPad == InitBuilder /\ [][NextPad]_vars

----------------------------------------------------------------------------
(* VectorizedOptimizer (vectorized_base.py).  Feature values are small     *)
(* integers, rewards are binary floats compared as the program compares    *)
(* them, and a random key is the top-level seed with the path of splits    *)
(* that led to it.                                                         *)

\* The element of a set of one element: a value computed once and named.
The(S) == CHOOSE x \in S : TRUE

\* jax.random.PRNGKey(seed or 0): None and 0 give the same key.
PRNGKey(seed) ==
  [seed |-> IF seed.is_none \/ seed.val = 0 THEN 0 ELSE seed.val, path |-> <<>>]

\* jax.random.split(key, num): num keys, each determined by key, num and its
\* index.  (SplitReused: the variant that hands out the first key num times.)
SplitReused(key, num) ==
  [k \in 1..num |-> [key EXCEPT !.path = Append(@, [num |-> num, k |-> 1])]]
Split(key, num) ==
  [k \in 1..num |-> [key EXCEPT !.path = Append(@, [num |-> num, k |-> k])]]

\* The pseudo-random integer in 0..n-1 a strategy draws from a key.
RECURSIVE PathSum(_)
PathSum(path) ==
  IF path = <<>> THEN 0 ELSE path[1].k + path[1].num * PathSum(Tail(path))
Draw(key, n) == (key.seed + PathSum(key.path)) % n

\* A padded entry of PaddedTrialToArrayConverter.to_features.
NaN == -1

\* Values of the feature column.
FeatureVals == 0..3

\* Indices of a in the order of a stable ascending sort (lax.top_k and
\* jnp.argsort keep the lower index first among equal values).
ArgSort(a) ==
  LET Before(c, j, i) == c < 0 \/ (c = 0 /\ j < i)
      Ranked(rank) == [r \in 1..Len(a) |-> CHOOSE i \in 1..Len(a) : rank[i] = r - 1]
  IN  Ranked([i \in 1..Len(a) |->
                Cardinality({j \in 1..Len(a) : Before(FCmp(a[j], a[i]), j, i)})])

\* jnp.argpartition(a, kth): the indices of the kth + 1 smallest values, then
\* the other indices in increasing order; a negative kth counts from the end.
ArgPartition(a, kth) ==
  LET Parts(k, sorted) ==
        LET bottom_ind == SubSeq(sorted, 1, k + 1)
            in_bottom == {bottom_ind[r] : r \in 1..(k + 1)}
        IN  bottom_ind \o SelectSeq([i \in 1..Len(a) |-> i],
                                    LAMBDA i : i \notin in_bottom)
  IN  The({Parts(IF kth < 0 THEN kth + Len(a) ELSE kth, sorted) :
             sorted \in {ArgSort(a)}})

\* -rewards
Negate(rewards) == [i \in 1..Len(rewards) |-> FNeg(rewards[i])]

\* array[indices]
Take(array, indices) == [r \in 1..Len(indices) |-> array[indices[r]]]

\* VectorizedStrategyResults
VectorizedStrategyResults(rewards, features) ==
  [rewards |-> rewards, features |-> features]

\* init_best_results of _optimize: count rewards of -inf and count rows of
\* zeros.
InitBestResults(count, n_padded_features) ==
  VectorizedStrategyResults(Replicate(count, FNeg(Inf)),
                            Replicate(count, Replicate(n_padded_features, 0)))

\* VectorizedOptimizer._update_best_results  (KeepBatch: the variant that
\* keeps the first count rows of the batch followed by the pool.)
KeepBatch(best_results, count, batch_features, batch_rewards) ==
  VectorizedStrategyResults(
    SubSeq(batch_rewards \o best_results.rewards, 1, count),
    SubSeq(batch_features \o best_results.features, 1, count))
\* (UnpairedBestResults: the variant that takes the rewards by top_indices
\* and the features by position.)
UnpairedBestResults(best_results, count, batch_features, batch_rewards) ==
  LET Top(all_rewards, all_features) ==
        VectorizedStrategyResults(
          Take(all_rewards, SubSeq(ArgPartition(Negate(all_rewards), count - 1), 1, count)),
          SubSeq(all_features, 1, count))
  IN  The({Top(all_rewards, all_features) :
             all_rewards \in {batch_rewards \o best_results.rewards},
             all_features \in {batch_features \o best_results.features}})
UpdateBestResults(best_results, count, batch_features, batch_rewards) ==
  LET Top(all_rewards, all_features) ==
        LET Pick(top_indices) ==
              VectorizedStrategyResults(Take(all_rewards, top_indices),
                                        Take(all_features, top_indices))
        IN  The({Pick(SubSeq(ArgPartition(negated, count - 1), 1, count)) :
                   negated \in {Negate(all_rewards)}})
  IN  The({Top(all_rewards, all_features) :
             all_rewards \in {batch_rewards \o best_results.rewards},
             all_features \in {batch_features \o best_results.features}})

\* sorted(prior_trials, key=lambda x: x.creation_time): a stable sort.
SortedByCreationTime(trials) ==
  LET Before(j, i) ==
        \/ trials[j].creation_time < trials[i].creation_time
        \/ trials[j].creation_time = trials[i].creation_time /\ j < i
      Rank(i) == Cardinality({j \in 1..Len(trials) : Before(j, i)})
  IN  [r \in 1..Len(trials) |-> trials[CHOOSE i \in 1..Len(trials) : Rank(i) = r - 1]]

\* The converters: TrialToArrayConverter, and PaddedTrialToArrayConverter with
\* MaxPad padded feature columns.  One parameter gives one feature column.
Converter(padded) ==
  [padded |-> padded, n_features |-> 1,
   n_padded_features |-> IF padded THEN 1 + MaxPad ELSE 1]

\* The rows of the padded array of n trials: the next even number.
PaddedRowCount(n) == 2 * ((n + 1) \div 2)

\* converter.to_features(trials); for the padded converter the padded_array,
\* whose rows beyond the trials are NaN and whose padded columns are zero.
ToFeatures(converter, trials) ==
  IF converter.padded
  THEN [i \in 1..PaddedRowCount(Len(trials)) |->
          IF i <= Len(trials)
          THEN <<trials[i].x>> \o Replicate(converter.n_padded_features - 1, 0)
          ELSE Replicate(converter.n_padded_features, NaN)]
  ELSE [i \in 1..Len(trials) |-> <<trials[i].x>>]

\* prior_features[len(prior_trials):, ...] = 0.0  (KeepPaddedRows: the variant
\* that leaves the rows as they are.)
KeepPaddedRows(features, n) == features
ZeroPaddedRows(features, n) ==
  [i \in 1..Len(features) |->
     IF i > n THEN [d \in 1..Len(features[i]) |-> 0] ELSE features[i]]

\* jnp.where(dimension_is_missing, jnp.zeros_like(new_features), new_features)
\* with dimension_is_missing = [False] * n_features + [True] * the rest.
\* (KeepPaddedDimensions: the variant that masks nothing.)
KeepPaddedDimensions(converter, new_features) == new_features
\* (MaskFirstRowOnly: the variant that masks the first row of the batch.)
MaskFirstRowOnly(converter, new_features) ==
  [i \in 1..Len(new_features) |->
     [d \in 1..Len(new_features[i]) |->
        IF i = 1 /\ d > converter.n_features THEN 0 ELSE new_features[i][d]]]
MaskPaddedDimensions(converter, new_features) ==
  [i \in 1..Len(new_features) |->
     [d \in 1..Len(new_features[i]) |->
        IF d > converter.n_features THEN 0 ELSE new_features[i][d]]]

\* converter.to_parameters(features)[0] of one row: the parameter columns.
ToParameters(converter, row) == SubSeq(row, 1, converter.n_features)

\* The score functions: each scores a row by its parameter column (score_fn
\* is aware of padded dimensions).
ScoreFns == {"linear", "peak", "flat"}
Score(score_fn, row) ==
  IF score_fn = "linear" THEN FromInt(row[1])
  ELSE IF score_fn = "peak" THEN FromInt(0 - (row[1] - 1) * (row[1] - 1))
  ELSE FromInt(1)
ScoreFn(score_fn, features) ==
  [i \in 1..Len(features) |-> Score(score_fn, features[i])]

\* The strategies a factory makes.  A strategy is deterministic: its state is
\* the record of what it was given, and a suggestion is a function of the
\* state and the seed.  pad_value is what it writes into padded columns;
\* init_state_jittable tells whether jax.jit can trace its init_state.
Strategies ==
  {[name |-> "random", pad_value |-> 1, init_state_jittable |-> TRUE],
   [name |-> "increment", pad_value |-> 0, init_state_jittable |-> TRUE],
   [name |-> "increment", pad_value |-> 1, init_state_jittable |-> FALSE]}

\* VectorizedStrategy.init_state
StrategyInitState(strategy, seed, prior_features, prior_rewards) ==
  <<[op |-> "init_state", seed |-> seed, features |-> prior_features,
     rewards |-> prior_rewards]>>

\* VectorizedStrategy.suggest: suggestion_batch_size rows.
StrategySuggest(strategy, state, seed, batch_size, converter) ==
  [j \in 1..batch_size |->
     <<IF strategy.name = "random"
       THEN (Draw(seed, Cardinality(FeatureVals)) + j) % Cardinality(FeatureVals)
       ELSE (Len(state) + j) % Cardinality(FeatureVals)>>
     \o Replicate(IF converter.padded THEN converter.n_padded_features - 1 ELSE 0,
                  strategy.pad_value)]

\* VectorizedStrategy.update
StrategyUpdate(strategy, state, batch_features, batch_rewards, seed) ==
  Append(state, [op |-> "update", seed |-> seed, features |-> Some(batch_features),
                 rewards |-> Some(batch_rewards)])

\* One entry of the record of calls: the function, its arguments, its result
\* and the step of the loop it was made in (0 before the loop).
Called(fn, step, args, ret) == [fn |-> fn, step |-> step, args |-> args, ret |-> ret]

\* prior_features of optimize: the sorted trials as features, the padded
\* rows zeroed under the padded converter.
PriorFeatures(converter, prior_trials) ==
  IF converter.padded
  THEN ZeroPaddedRows(ToFeatures(converter, SortedByCreationTime(prior_trials)),
                      Len(prior_trials))
  ELSE ToFeatures(converter, SortedByCreationTime(prior_trials))

\* optimize up to the creation of the strategy: the key of the seed, and the
\* prior trials scored if there are any (None and [] are both false).
ScoredPriors(o) ==
  LET Scored(prior_features, prior_rewards) ==
        [o EXCEPT !.pc = "_optimize", !.seed = PRNGKey(o.seed_arg),
                  !.prior_features = Some(prior_features),
                  !.prior_rewards = Some(prior_rewards),
                  !.log = <<Called("score_fn", 0, [features |-> prior_features],
                                   prior_rewards)>>]
      Features(prior_features) ==
        Scored(prior_features, ScoreFn(o.score_fn, prior_features))
  IN  IF ~o.prior_trials.is_none /\ Len(o.prior_trials.val) > 0
      THEN Features(PriorFeatures(o.converter, o.prior_trials.val))
      ELSE [o EXCEPT !.pc = "_optimize", !.seed = PRNGKey(o.seed_arg),
                     !.prior_features = None, !.prior_rewards = None]

\* _optimize up to the loop, run with the key seed: the seed is split, the
\* pool is filled with sentinels and the strategy initialised.
InitArgsWith(o, seed) ==
  LET Args(keys) ==
        LET Entered(state) ==
              [o EXCEPT !.pc = "fori_loop", !.state = state,
                        !.best_results =
                          InitBestResults(o.count, o.converter.n_padded_features),
                        !.loop_seed = keys[2], !.i = 0,
                        !.log = Append(@, Called("init_state", 0,
                                  [seed |-> keys[1], features |-> o.prior_features,
                                   rewards |-> o.prior_rewards], state))]
        IN  Entered(StrategyInitState(o.strategy, keys[1], o.prior_features,
                                      o.prior_rewards))
  IN  Args(Split(seed, 2))

\* _optimize up to the loop.  Under jit_loop the function is traced by jax.jit
\* first, which raises when init_state cannot be traced; without it
\* init_state is called eagerly.  (The loop body is traced by
\* jax.lax.fori_loop either way.)
\* (InitArgsStaleSeed: the variant whose jitted function has the key of seed 0
\* baked in.)
InitArgsStaleSeed(o) ==
  IF o.jit_loop /\ ~o.strategy.init_state_jittable
  THEN [o EXCEPT !.pc = "raised"]
  ELSE InitArgsWith(o, IF o.jit_loop THEN PRNGKey(None) ELSE o.seed)
InitArgs(o) ==
  IF o.jit_loop /\ ~o.strategy.init_state_jittable
  THEN [o EXCEPT !.pc = "raised"]
  ELSE InitArgsWith(o, o.seed)

\* The trip count of the loop.  (TripCountRoundedUp: the variant that rounds
\* the quotient up.)
TripCountRoundedUp(o) ==
  (o.max_evaluations + o.suggestion_batch_size - 1) \div o.suggestion_batch_size
TripCount(o) == o.max_evaluations \div o.suggestion_batch_size

\* _optimization_one_step; each local is a value computed once.
OptimizationOneStep(o) ==
  LET Told(keys, suggested, new_features, new_rewards, new_state, new_best_results) ==
        [o EXCEPT !.state = new_state, !.best_results = new_best_results,
                  !.loop_seed = keys[3], !.i = o.i + 1,
                  !.log = @ \o
                    <<Called("suggest", o.i + 1,
                             [state |-> o.state, seed |-> keys[1]], suggested),
                      Called("score_fn", o.i + 1,
                             [features |-> new_features], new_rewards),
                      Called("update", o.i + 1,
                             [state |-> o.state, features |-> new_features,
                              rewards |-> new_rewards, seed |-> keys[2]],
                             new_state),
                      Called("_update_best_results", o.i + 1,
                             [best_results |-> o.best_results,
                              features |-> new_features,
                              rewards |-> new_rewards], new_best_results)>>]
      Scored(keys, suggested, new_features, new_rewards) ==
        The({Told(keys, suggested, new_features, new_rewards, new_state,
                  new_best_results) :
               new_state \in {StrategyUpdate(o.strategy, o.state, new_features,
                                             new_rewards, keys[2])},
               new_best_results \in {UpdateBestResults(o.best_results, o.count,
                                                       new_features, new_rewards)}})
      Masked(keys, suggested, new_features) ==
        The({Scored(keys, suggested, new_features, new_rewards) :
               new_rewards \in {ScoreFn(o.score_fn, new_features)}})
      Suggested(keys, suggested) ==
        The({Masked(keys, suggested, new_features) :
               new_features \in {IF o.converter.padded
                                 THEN MaskPaddedDimensions(o.converter, suggested)
                                 ELSE suggested}})
      Seeded(keys) ==
        The({Suggested(keys, suggested) :
               suggested \in {StrategySuggest(o.strategy, o.state, keys[1],
                                              o.suggestion_batch_size, o.converter)}})
  IN  The({Seeded(keys) : keys \in {Split(o.loop_seed, 3)}})

\* VectorizedOptimizer._best_candidates, on the pool the loop returns.
\* (BestCandidatesAscending: the variant that sorts by rewards, not -rewards.)
BestCandidatesAscending(o) ==
  LET Trials(sorted_ind) ==
        [i \in 1..Len(o.best_results.rewards) |->
           [parameters |-> ToParameters(o.converter,
                                        o.best_results.features[sorted_ind[i]]),
            acquisition |-> o.best_results.rewards[sorted_ind[i]]]]
  IN  [o EXCEPT !.pc = "returned",
                !.trials = Trials(ArgSort(o.best_results.rewards))]
BestCandidates(o) ==
  LET Trials(sorted_ind) ==
        [i \in 1..Len(o.best_results.rewards) |->
           [parameters |-> ToParameters(o.converter,
                                        o.best_results.features[sorted_ind[i]]),
            acquisition |-> o.best_results.rewards[sorted_ind[i]]]]
  IN  [o EXCEPT !.pc = "returned",
                !.trials = Trials(ArgSort(Negate(o.best_results.rewards)))]

\* optimize from wherever o stands to its end.
RECURSIVE Optimize(_)
Optimize(o) ==
  IF o.pc = "optimize" THEN Optimize(ScoredPriors(o))
  ELSE IF o.pc = "_optimize" THEN Optimize(InitArgs(o))
  ELSE IF o.pc = "fori_loop"
  THEN IF o.i < TripCount(o) THEN Optimize(OptimizationOneStep(o))
       ELSE BestCandidates(o)
  ELSE o

\* The optimize calls: optimizer fields and arguments, and the locals before
\* the first statement.
Trial(creation_time, x) == [creation_time |-> creation_time, x |-> x]
PriorTrialLists ==
  {None, Some(<<>>), Some(<<Trial(1, 2)>>), Some(<<Trial(2, 1), Trial(1, 3)>>)}
Seeds == {None, Some(1)}
NoKey == [seed |-> 0, path |-> <<>>]

OptimizeCalls ==
  [pc : {"optimize"},
   strategy : Strategies, suggestion_batch_size : 1..MaxBatch,
   max_evaluations : 0..MaxEvaluations, jit_loop : BOOLEAN,
   converter : {Converter(p) : p \in BOOLEAN}, score_fn : ScoreFns,
   count : 0..MaxCount, prior_trials : PriorTrialLists, seed_arg : Seeds,
   seed : {NoKey}, prior_features : {None}, prior_rewards : {None},
   state : {<<>>}, best_results : {VectorizedStrategyResults(<<>>, <<>>)},
   loop_seed : {NoKey}, i : {0}, log : {<<>>}, trials : {<<>>}]

\* The call of optimize with the optimizer fields and the arguments of o.
CallOf(o) ==
  [o EXCEPT !.pc = "optimize", !.seed = NoKey, !.prior_features = None,
            !.prior_rewards = None, !.state = <<>>,
            !.best_results = VectorizedStrategyResults(<<>>, <<>>),
            !.loop_seed = NoKey, !.i = 0, !.log = <<>>, !.trials = <<>>]

OptimizerFrame ==
  UNCHANGED <<kind, use_trust_region, acquisition_fns, x64, heap, built,
              get_predictive_dist, predict_on_array, sample_on_array,
              acquisition_on_array, captured, tr, tr_specs, acquisition_problem,
              nbuilds, last, srch, fac>>

\* optimize, lines 242-256.
ScorePriorTrials ==
  /\ opt.pc = "optimize"
  /\ opt' = ScoredPriors(opt)
  /\ OptimizerFrame

\* optimize, lines 258-303 and 311-315.
EnterLoop ==
  /\ opt.pc = "_optimize"
  /\ opt' = InitArgs(opt)
  /\ OptimizerFrame

\* One iteration of jax.lax.fori_loop.
LoopStep ==
  /\ opt.pc = "fori_loop"
  /\ opt.i < TripCount(opt)
  /\ opt' = OptimizationOneStep(opt)
  /\ OptimizerFrame

\* The loop is over: optimize returns the best candidates.
ReturnBestCandidates ==
  /\ opt.pc = "fori_loop"
  /\ opt.i >= TripCount(opt)
  /\ opt' = BestCandidates(opt)
  /\ OptimizerFrame

InitOpt ==
  /\ kind = "none"
  /\ use_trust_region = FALSE
  /\ acquisition_fns = <<>>
  /\ x64 = FALSE
  /\ InitObject
  /\ opt \in OptimizeCalls
  /\ srch = NoSearcher
  /\ fac = NoFactory

NextOpt ==
  \/ ScorePriorTrials
  \/ EnterLoop
  \/ LoopStep
  \/ ReturnBestCandidates

SpecOpt == InitOpt /\ [][NextOpt]_vars

\* The calls that differ in what decides the length of a run: the optimizer's
\* fields, the count and the strategy.
LoopCalls ==
  {c \in OptimizeCalls :
     /\ c.converter = Converter(FALSE)
     /\ c.score_fn = "linear"
     /\ c.prior_trials = None
     /\ c.seed_arg = None}

InitLoopCalls ==
  /\ InitOpt
  /\ opt \in LoopCalls

\* optimize runs sequentially with nothing to wait for: a step that can be
\* taken is taken.
SpecOptFair == InitLoopCalls /\ [][NextOpt]_vars /\ WF_vars(NextOpt)

----------------------------------------------------------------------------
(* VizierSearch (vizier_search.py).  The Vizier service behind             *)
(* clients.Study holds studies by id and their trials; a trial client is   *)
(* the id of its trial, and what the searcher sends to a trial client is   *)
(* recorded with the trial.  A dict is a function, a result dict a set of  *)
(* pairs.                                                                  *)

MaxCalls == 3         \* calls of one searcher
MaxTrials == 2        \* trials the service creates

\* tune.result.DEFAULT_METRIC
DEFAULT_METRIC == "_metric"

\* A metric name (a str), a MetricInformation object, and Python's None, as
\* values of one shape so that they can be compared.
Name(name) == [cls |-> "str", name |-> name, goal |-> ""]
MetricInformation(name, goal) == [cls |-> "MetricInformation", name |-> name, goal |-> goal]
NoneType == [cls |-> "NoneType", name |-> "", goal |-> ""]

\* svz.StudyConfig
StudyConfig(search_space, algorithm, metric_information) ==
  [search_space |-> search_space, algorithm |-> algorithm,
   metric_information |-> metric_information]

\* The service with no study.
EmptyService == [studies |-> <<>>, trials |-> <<>>]

\* clients.Study.from_study_config(config, owner='raytune', study_id=...): the
\* study is created under the id unless the service has one.
FromStudyConfig(service, config, study_id) ==
  IF study_id \in DOMAIN service.studies THEN service
  ELSE [service EXCEPT !.studies =
          [id \in DOMAIN service.studies \cup {study_id} |->
             IF id = study_id THEN config ELSE service.studies[id]]]

\* What suggest returns, in one shape: the parameters of the trial the service
\* made with the id, or the marker search.Searcher.FINISHED.
Parameters(id) == [finished |-> FALSE, x |-> id]
FINISHED == [finished |-> TRUE, x |-> 0]

\* study_client.suggest(count=1): no suggestion (offer 0), a trial made
\* before that is still active, or a new trial.
SuggestOffers(service) ==
  {0} \cup {id \in 1..Len(service.trials) : service.trials[id].status = "ACTIVE"}
      \cup {id \in {Len(service.trials) + 1} : id <= MaxTrials}
ServiceSuggest(service, offer) ==
  IF offer = Len(service.trials) + 1
  THEN [service EXCEPT !.trials =
          Append(@, [id |-> offer, status |-> "ACTIVE", sent |-> <<>>])]
  ELSE service

\* trial_client.add_measurement(measurement) and trial_client.complete(...):
\* the message reaches the trial.
Sent(service, id, msg) ==
  [service EXCEPT !.trials[id].sent = Append(@, msg),
                  !.trials[id].status = IF msg.msg = "complete" THEN "COMPLETED" ELSE @]

\* svz.Measurement(result, elapsed_secs=now - creation_time)
Measurement(result) == [metrics |-> result, elapsed_secs |-> "now - creation_time"]

\* The call is added to the record of calls of the searcher.
Logged(s, op, arg, res) == [s EXCEPT !.log = Append(@, Call(op, arg, res))]

\* VizierSearch.__init__: study_id or a fresh uuid; with a problem the metric
\* name is stored and the study created.
VizierSearchInit(study_id, problem) ==
  LET New(id) ==
        [pc |-> "searcher", study_id |-> id, algorithm |-> "GAUSSIAN_PROCESS_BANDIT",
         active_trials |-> <<>>, metric |-> NoneType, study_client |-> None,
         service |-> EmptyService, file |-> None, at_save |-> None, log |-> <<>>]
      Configured(s) ==
        IF problem.is_none THEN s
        ELSE [s EXCEPT !.metric = Name(problem.val.metric_information[1].name),
                       !.study_client = Some(s.study_id),
                       !.service = FromStudyConfig(@, problem.val, s.study_id)]
  IN  Configured(New(IF study_id.is_none \/ study_id.val = ""
                     THEN "ray_vizier_uuid1" ELSE study_id.val))

\* VizierSearch.set_search_properties  (set_search_properties_again: the
\* variant that configures the study whether or not there is one.)
set_search_properties_again(s, metric, mode, config) ==
  LET Create(name, goal) ==
        Logged([s EXCEPT !.metric = Name(name),
                         !.study_client = Some(s.study_id),
                         !.service = FromStudyConfig(@,
                            StudyConfig(config, s.algorithm,
                                        <<MetricInformation(name, goal)>>),
                            s.study_id)],
               "set_search_properties", [metric |-> metric, mode |-> mode], Ok(TRUE))
  IN  IF mode \notin {Some("min"), Some("max")}
      THEN Logged(s, "set_search_properties", [metric |-> metric, mode |-> mode],
                  Raise("ValueError: 'mode' must be one of ['min', 'max']"))
      ELSE Create(IF metric.is_none \/ metric.val = "" THEN DEFAULT_METRIC
                  ELSE metric.val,
                  IF mode = Some("max") THEN "MAXIMIZE" ELSE "MINIMIZE")
set_search_properties(s, metric, mode, config) ==
  LET Create(name, goal) ==
        Logged([s EXCEPT !.metric = Name(name),
                         !.study_client = Some(s.study_id),
                         !.service = FromStudyConfig(@,
                            StudyConfig(config, s.algorithm,
                                        <<MetricInformation(name, goal)>>),
                            s.study_id)],
               "set_search_properties", [metric |-> metric, mode |-> mode], Ok(TRUE))
  IN  IF ~s.study_client.is_none
      THEN Logged(s, "set_search_properties", [metric |-> metric, mode |-> mode],
                  Ok(FALSE))
      ELSE IF mode \notin {Some("min"), Some("max")}
      THEN Logged(s, "set_search_properties", [metric |-> metric, mode |-> mode],
                  Raise("ValueError: 'mode' must be one of ['min', 'max']"))
      ELSE Create(IF metric.is_none \/ metric.val = "" THEN DEFAULT_METRIC
                  ELSE metric.val,
                  IF mode = Some("max") THEN "MAXIMIZE" ELSE "MINIMIZE")

\* The guard of on_trial_result and on_trial_complete.
NoActiveTrial(s, trial_id) == trial_id \notin DOMAIN s.active_trials

\* VizierSearch.on_trial_result
on_trial_result(s, trial_id, result) ==
  IF NoActiveTrial(s, trial_id)
  THEN Logged(s, "on_trial_result", [trial_id |-> trial_id],
              Raise("RuntimeError: No active trial"))
  ELSE Logged([s EXCEPT !.service =
                 Sent(@, s.active_trials[trial_id],
                      [msg |-> "add_measurement",
                       measurement |-> Some(Measurement(result)),
                       infeasible_reason |-> None])],
              "on_trial_result", [trial_id |-> trial_id], Ok(<<>>))

\* VizierSearch.on_trial_complete: result is None or Some(dict); an empty dict
\* gives no measurement.
on_trial_complete(s, trial_id, result, error) ==
  IF NoActiveTrial(s, trial_id)
  THEN Logged(s, "on_trial_complete", [trial_id |-> trial_id],
              Raise("RuntimeError: No active trial"))
  ELSE Logged([s EXCEPT !.service =
                 Sent(@, s.active_trials[trial_id],
                      IF error
                      THEN [msg |-> "complete", measurement |-> None,
                            infeasible_reason |-> Some(<<trial_id, result>>)]
                      ELSE [msg |-> "complete",
                            measurement |->
                              IF ~result.is_none /\ result.val # {}
                              THEN Some(Measurement(result.val)) ELSE None,
                            infeasible_reason |-> None])],
              "on_trial_complete", [trial_id |-> trial_id], Ok(<<>>))

\* VizierSearch.suggest; offer is what the service answers.
\* (suggest_unconfigured: the variant without the test of study_client.)
suggest_unconfigured(s, trial_id, offer) ==
  IF offer = 0
  THEN Logged(s, "suggest", [trial_id |-> trial_id], Ok(FINISHED))
  ELSE Logged([s EXCEPT !.service = ServiceSuggest(@, offer),
                        !.active_trials =
                          [t \in DOMAIN s.active_trials \cup {trial_id} |->
                             IF t = trial_id THEN offer ELSE s.active_trials[t]]],
              "suggest", [trial_id |-> trial_id], Ok(Parameters(offer)))
\* (suggest_forgetful: the variant that keeps the new trial only.)
suggest_forgetful(s, trial_id, offer) ==
  IF s.study_client.is_none
  THEN Logged(s, "suggest", [trial_id |-> trial_id],
              Raise("RuntimeError: VizierSearch not initialized! Set a search space first."))
  ELSE IF offer = 0
  THEN Logged(s, "suggest", [trial_id |-> trial_id], Ok(FINISHED))
  ELSE Logged([s EXCEPT !.service = ServiceSuggest(@, offer),
                        !.active_trials = [t \in {trial_id} |-> offer]],
              "suggest", [trial_id |-> trial_id], Ok(Parameters(offer)))
suggest(s, trial_id, offer) ==
  IF s.study_client.is_none
  THEN Logged(s, "suggest", [trial_id |-> trial_id],
              Raise("RuntimeError: VizierSearch not initialized! Set a search space first."))
  ELSE IF offer = 0
  THEN Logged(s, "suggest", [trial_id |-> trial_id], Ok(FINISHED))
  ELSE Logged([s EXCEPT !.service = ServiceSuggest(@, offer),
                        !.active_trials =
                          [t \in DOMAIN s.active_trials \cup {trial_id} |->
                             IF t = trial_id THEN offer ELSE s.active_trials[t]]],
              "suggest", [trial_id |-> trial_id], Ok(Parameters(offer)))

\* VizierSearch.save: json.dump of the study id and of the dict from Ray trial
\* id (a str, kept as key) to Vizier trial id (an int).  at_save remembers the
\* searcher the file was written from.
save(s) ==
  Logged([s EXCEPT !.file =
                     Some([study_id |-> s.study_id,
                           ray_to_vizier_trial_ids |->
                             [t \in DOMAIN s.active_trials |-> s.active_trials[t]]]),
                   !.at_save =
                     Some([study_id |-> s.study_id, active_trials |-> s.active_trials,
                           metric |-> s.metric])],
         "save", <<>>, Ok(<<>>))

\* VizierSearch.restore: the metric is what .item() gives, the
\* MetricInformation of the study.
restore(s) ==
  LET Loaded(obj) ==
        IF obj.study_id \notin DOMAIN s.service.studies
        THEN Logged([s EXCEPT !.study_id = obj.study_id], "restore", <<>>,
                    Raise("NotFoundError: study"))
        ELSE Logged([s EXCEPT
                       !.study_id = obj.study_id,
                       !.study_client = Some(obj.study_id),
                       !.metric = s.service.studies[obj.study_id].metric_information[1],
                       !.active_trials = obj.ray_to_vizier_trial_ids],
                    "restore", <<>>, Ok(<<>>))
  IN  IF s.file.is_none
      THEN Logged(s, "restore", <<>>, Raise("FileNotFoundError"))
      ELSE Loaded(s.file.val)

\* Bounded inputs of the searcher.
RayTrialIds == {"ray_1", "ray_2"}
StudyIds == {None, Some("test study")}
MetricArgs == {None, Some("loss")}
Modes == {None, Some("min"), Some("max")}
Results == {None, Some({}), Some({<<"loss", 1>>})}
StudyProblems ==
  {None, Some(StudyConfig("search_space", "RANDOM_SEARCH",
                          <<MetricInformation("bbob_eval", "MINIMIZE")>>))}

SearcherFrame ==
  UNCHANGED <<kind, use_trust_region, acquisition_fns, x64, heap, built,
              get_predictive_dist, predict_on_array, sample_on_array,
              acquisition_on_array, captured, tr, tr_specs, acquisition_problem,
              nbuilds, last, opt, fac>>

SetSearchProperties ==
  /\ Len(srch.log) < MaxCalls
  /\ \E metric \in MetricArgs, mode \in Modes :
       srch' = set_search_properties(srch, metric, mode, "config")
  /\ SearcherFrame

OnTrialResult ==
  /\ Len(srch.log) < MaxCalls
  /\ \E trial_id \in RayTrialIds :
       srch' = on_trial_result(srch, trial_id, {<<"loss", 1>>})
  /\ SearcherFrame

OnTrialComplete ==
  /\ Len(srch.log) < MaxCalls
  /\ \E trial_id \in RayTrialIds, result \in Results, error \in BOOLEAN :
       srch' = on_trial_complete(srch, trial_id, result, error)
  /\ SearcherFrame

Suggest ==
  /\ Len(srch.log) < MaxCalls
  /\ \E trial_id \in RayTrialIds, offer \in SuggestOffers(srch.service) :
       srch' = suggest(srch, trial_id, offer)
  /\ SearcherFrame

Save ==
  /\ Len(srch.log) < MaxCalls
  /\ srch' = save(srch)
  /\ SearcherFrame

Restore ==
  /\ Len(srch.log) < MaxCalls
  /\ srch' = restore(srch)
  /\ SearcherFrame

InitSearch ==
  /\ kind = "none"
  /\ use_trust_region = FALSE
  /\ acquisition_fns = <<>>
  /\ x64 = FALSE
  /\ InitObject
  /\ opt = NoOptimizer
  /\ fac = NoFactory
  /\ \E study_id \in StudyIds, problem \in StudyProblems :
       srch = VizierSearchInit(study_id, problem)

NextSearch ==
  \/ SetSearchProperties
  \/ OnTrialResult
  \/ OnTrialComplete
  \/ Suggest
  \/ Save
  \/ Restore

SpecSearch == InitSearch /\ [][NextSearch]_vars

----------------------------------------------------------------------------
(* Experimenter factories (experimenter_factory.py): dump to metadata and  *)
(* recover from it.  A JSON document is the tree json.loads reads from it; *)
(* the str of a dict key that json.dumps makes from an int is a sequence   *)
(* of characters.                                                          *)

MaxDim == 2           \* dim of a BBOB factory

BBOB_FACTORY_KEY == "bbob_factory"
SINGLE_OBJECTIVE_FACTORY_KEY == "single_objective_factory"

\* str(n) of an int, as json.dumps writes an int key.
\* (IntToStrLastDigit: the variant that writes the last digit only.)
Digits == <<"0", "1", "2", "3", "4", "5", "6", "7", "8", "9">>
RECURSIVE NatToStr(_)
NatToStr(n) ==
  IF n < 10 THEN <<Digits[n + 1]>> ELSE NatToStr(n \div 10) \o <<Digits[(n % 10) + 1]>>
IntToStrLastDigit(n) == <<Digits[(Abs(n) % 10) + 1]>>
IntToStr(n) == IF n < 0 THEN <<"-">> \o NatToStr(0 - n) ELSE NatToStr(n)

\* int(s) of a str of decimal digits with an optional sign.
DigitOf(c) == CHOOSE d \in 0..9 : Digits[d + 1] = c
RECURSIVE StrToNat(_)
StrToNat(s) ==
  IF Len(s) = 1 THEN DigitOf(s[1])
  ELSE 10 * StrToNat(SubSeq(s, 1, Len(s) - 1)) + DigitOf(s[Len(s)])
StrToInt(s) == IF s[1] = "-" THEN 0 - StrToNat(Tail(s)) ELSE StrToNat(s)

\* JSON values.
JNull == [t |-> "null"]
JString(v) == [t |-> "string", v |-> v]
JNumber(v) == [t |-> "number", v |-> v]
JArray(items) == [t |-> "array", items |-> items]
JObject(members) == [t |-> "object", members |-> members]

\* json.dumps of None or a str, of an int, and of a dict from int to int (the
\* keys become strs): members are pairs of key and value.
DumpsOptionalStr(x) == IF x.is_none THEN JNull ELSE JString(x.val)
DumpsIntDict(d) == JObject({<<IntToStr(k), JNumber(d[k])>> : k \in DOMAIN d})

\* json_utils.NumpyEncoder on None or an ndarray: an object of dtype, value
\* and shape.
NumpyEncoder(x) ==
  IF x.is_none THEN JNull
  ELSE JObject({<<"dtype", JString(x.val.dtype)>>,
                <<"value", JArray([i \in 1..Len(x.val.value) |-> JNumber(x.val.value[i])])>>,
                <<"shape", JArray([i \in 1..Len(x.val.shape) |-> JNumber(x.val.shape[i])])>>})

\* The value of the member key of a JSON object.
Member(j, key) == (CHOOSE m \in j.members : m[1] = key)[2]

\* json_utils.NumpyDecoder on null or an object with dtype, value and shape.
NumpyDecoder(j) ==
  IF j.t = "null" THEN None
  ELSE Some([dtype |-> Member(j, "dtype").v,
             value |-> [i \in 1..Len(Member(j, "value").items) |->
                          Member(j, "value").items[i].v],
             shape |-> [i \in 1..Len(Member(j, "shape").items) |->
                          Member(j, "shape").items[i].v]])

\* json.loads of null or a string, and of an object of numbers: a dict with
\* str keys.
LoadsOptionalStr(j) == IF j.t = "null" THEN None ELSE Some(j.v)
LoadsDict(j) == {<<m[1], m[2].v>> : m \in j.members}

\* {int(k): v for k, v in d.items()}
IntKeys(d) ==
  [k \in {StrToInt(m[1]) : m \in d} |-> (CHOOSE m \in d : StrToInt(m[1]) = k)[2]]

\* The factories.
BBOBExperimenterFactory(name, dim) ==
  [cls |-> "BBOBExperimenterFactory", name |-> name, dim |-> dim]
SingleObjectiveExperimenterFactory(base_factory, shift, noise_type, num_normalization_samples, discrete_dict, categorical_dict) ==
  [cls |-> "SingleObjectiveExperimenterFactory", base_factory |-> base_factory,
   shift |-> shift, noise_type |-> noise_type,
   num_normalization_samples |-> num_normalization_samples,
   discrete_dict |-> discrete_dict, categorical_dict |-> categorical_dict]

\* metadata with metadata[key] = value
WithEntry(metadata, key, value) ==
  [k \in DOMAIN metadata \cup {key} |-> IF k = key THEN value ELSE metadata[k]]

\* BBOBExperimenterFactory.dump
BBOBDump(f) ==
  WithEntry(<<>>, BBOB_FACTORY_KEY,
            JObject({<<"name", JString(f.name)>>, <<"dim", JNumber(f.dim)>>}))

\* BBOBExperimenterFactory.recover
BBOBRecover(metadata) ==
  IF BBOB_FACTORY_KEY \notin DOMAIN metadata THEN Raise("KeyError")
  ELSE Ok(BBOBExperimenterFactory(Member(metadata[BBOB_FACTORY_KEY], "name").v,
                                  Member(metadata[BBOB_FACTORY_KEY], "dim").v))

\* SingleObjectiveExperimenterFactory.dump
SingleObjectiveDump(f) ==
  WithEntry(BBOBDump(f.base_factory), SINGLE_OBJECTIVE_FACTORY_KEY,
            JObject({<<"shift", NumpyEncoder(f.shift)>>,
                     <<"noise_type", DumpsOptionalStr(f.noise_type)>>,
                     <<"num_normalization_samples", JNumber(f.num_normalization_samples)>>,
                     <<"discrete_dict", DumpsIntDict(f.discrete_dict)>>,
                     <<"categorical_dict", DumpsIntDict(f.categorical_dict)>>}))

\* SingleObjectiveExperimenterFactory.recover
SingleObjectiveRecover(metadata) ==
  LET Recovered(base_factory, metadata_dict) ==
        Ok(SingleObjectiveExperimenterFactory(
             base_factory,
             NumpyDecoder(Member(metadata_dict, "shift")),
             LoadsOptionalStr(Member(metadata_dict, "noise_type")),
             Member(metadata_dict, "num_normalization_samples").v,
             IntKeys(LoadsDict(Member(metadata_dict, "discrete_dict"))),
             IntKeys(LoadsDict(Member(metadata_dict, "categorical_dict")))))
  IN  IF BBOB_FACTORY_KEY \notin DOMAIN metadata
      THEN Raise("DecodeError: No valid base factory found")
      ELSE IF SINGLE_OBJECTIVE_FACTORY_KEY \notin DOMAIN metadata
      THEN Raise("KeyError")
      ELSE Recovered(BBOBRecover(metadata).val, metadata[SINGLE_OBJECTIVE_FACTORY_KEY])

\* dump and recover of the class of the factory.
Dump(f) ==
  IF f.cls = "BBOBExperimenterFactory" THEN BBOBDump(f) ELSE SingleObjectiveDump(f)
Recover(cls, metadata) ==
  IF cls = "BBOBExperimenterFactory" THEN BBOBRecover(metadata)
  ELSE SingleObjectiveRecover(metadata)

\* Bounded inputs: the fields of the factories.
BBOBNames == {"Sphere", "Rastrigin"}
BBOBFactories == {BBOBExperimenterFactory(name, dim) : name \in BBOBNames, dim \in 1..MaxDim}
NdArray(value) == [dtype |-> "float64", value |-> value, shape |-> <<Len(value)>>]
Shifts == {None, Some(NdArray(<<1>>)), Some(NdArray(<<1, 2>>))}
NoiseTypes == {None, Some("NO_NOISE")}
NormalizationSamples == {0, 10}
IntDicts == {<<>>, [k \in {0} |-> 3], [k \in {0, 12} |-> k + 2], [k \in {-1} |-> 2]}
SingleObjectiveFactories ==
  {SingleObjectiveExperimenterFactory(b, shift, noise_type, n, dd, cd) :
     b \in BBOBFactories, shift \in Shifts, noise_type \in NoiseTypes,
     n \in NormalizationSamples, dd \in IntDicts, cd \in IntDicts}

FactoryFrame ==
  UNCHANGED <<kind, use_trust_region, acquisition_fns, x64, heap, built,
              get_predictive_dist, predict_on_array, sample_on_array,
              acquisition_on_array, captured, tr, tr_specs, acquisition_problem,
              nbuilds, last, opt, srch>>

\* metadata = factory.dump()
DumpFactory ==
  /\ fac.pc = "new"
  /\ fac' = [fac EXCEPT !.pc = "dumped", !.metadata = Dump(fac.factory)]
  /\ FactoryFrame

\* cls.recover(given), given being the metadata or the metadata less some
\* entries.
RecoverFactory ==
  /\ fac.pc = "dumped"
  /\ \E cls \in {"BBOBExperimenterFactory", "SingleObjectiveExperimenterFactory"},
        keys \in SUBSET DOMAIN fac.metadata :
       fac' = [fac EXCEPT !.pc = "recovered", !.cls = cls,
                          !.given = [k \in keys |-> fac.metadata[k]],
                          !.recovered = Recover(cls, [k \in keys |-> fac.metadata[k]])]
  /\ FactoryFrame

InitFactory ==
  /\ kind = "none"
  /\ use_trust_region = FALSE
  /\ acquisition_fns = <<>>
  /\ x64 = FALSE
  /\ InitObject
  /\ opt = NoOptimizer
  /\ srch = NoSearcher
  /\ \E f \in BBOBFactories \cup SingleObjectiveFactories :
       fac = [pc |-> "new", factory |-> f, metadata |-> <<>>, cls |-> "",
              given |-> <<>>, recovered |-> Raise("")]

NextFactory ==
  \/ DumpFactory
  \/ RecoverFactory

SpecFactory == InitFactory /\ [][NextFactory]_vars

----------------------------------------------------------------------------
(* Claims about the builders' accessors and the acquisition problem        *)
(* (specification Spec).                                                   *)

Accessors == {"acquisition_problem", "acquisition_on_array", "predict_on_array",
              "sample_on_array", "metadata_dict"}

\* Some build() call has run to its end; only the end of a build stores the
\* acquisition problem.
BuildCompleted == acquisition_problem # 0

\* C1: reading any of the five accessors (or calling acquisition_on_array)
\* before a build() has completed raises the "must be built first"
\* ValueError, also after a build() that raised; after a completed build no
\* accessor raises and no call raises that error.
C1_AccessorsNeedBuild ==
  /\ last.op \in Accessors =>
       IF BuildCompleted THEN last.ok ELSE ~last.ok /\ last.err = NotBuilt
  /\ last.op = "acquisition_on_array(xs)" =>
       IF BuildCompleted THEN last.err # NotBuilt
       ELSE ~last.ok /\ last.err = NotBuilt

\* An accessor read after a build() that raised, on a builder never built.
C1_Witness ==
  /\ kind = "multi"
  /\ nbuilds > 0
  /\ ~BuildCompleted
  /\ last.op = "metadata_dict"
  /\ ~last.ok

\* The metrics build() must leave on the acquisition problem.
ExpectedMetrics ==
  IF kind = "single" THEN <<Metric("acquisition", "MAXIMIZE")>>
  ELSE [i \in 1..Len(acquisition_fns) |-> Metric(acquisition_fns[i], "MAXIMIZE")]

\* C2: a completed build(problem) leaves the caller's problem object as it
\* was, and the acquisition problem is another object, a copy of it whose
\* metrics are one MAXIMIZE metric named "acquisition" (single builder) or one
\* MAXIMIZE metric per key of acquisition_fns (multi builder).
C2_ProblemCopied ==
  (last.op = "build" /\ last.ok) =>
    /\ heap[last.arg.problem] = last.arg.before
    /\ \A r \in CallerRefs : heap[r] = CallerProblems[r]
    /\ acquisition_problem \notin CallerRefs
    /\ heap[acquisition_problem].allocated
    /\ heap[acquisition_problem].search_space = last.arg.before.search_space
    /\ heap[acquisition_problem].metric_information = ExpectedMetrics

\* A multi builder with two functions built on a problem with other metrics.
C2_Witness ==
  /\ last.op = "build"
  /\ last.ok
  /\ kind = "multi"
  /\ Len(acquisition_fns) = 2
  /\ last.arg.problem = 3

----------------------------------------------------------------------------
(* Claims about the trust radius (specification SpecTR).                   *)

NumTrusted(t) ==
  IF t.cls = "TrustRegion" THEN Len(t.trusted) ELSE Len(t.trusted.continuous)

ConfiguredMinRadius(t) ==
  IF t.cls = "TrustRegion" THEN MinRadius ELSE t.min_radius

\* The radius the class of t computes for n trusted rows, all else equal.
RadiusWith(t, n) ==
  IF t.cls = "TrustRegion" THEN ComputeTrustRadius(Replicate(n, <<>>), t.dof)
  ELSE ComputeTrustRadiusCat(CC(Replicate(n, <<>>), t.trusted.ncont, <<>>,
                                t.trusted.ncat),
                             t.min_radius, t.dimension_factor, t.dof)

\* C5: the radius is non-decreasing in the number of trusted rows for a fixed
\* dof and equals the (configured) minimum radius with no trusted row, for
\* TrustRegion and for TrustRegionWithCategorical.
C5_RadiusMonotone ==
  tr.cls # "unset" =>
    /\ NumTrusted(tr) = 0 => tr.trust_radius = ConfiguredMinRadius(tr)
    /\ FLe(tr.trust_radius, RadiusWith(tr, NumTrusted(tr) + 1))

\* The exact value of min_radius + (0.5 - min_radius) * n / (5 * (dof + 1)).
FormulaRadius(n, dof) ==
  RatAdd(Rat(2, 10), RatMul(Rat(3, 10), Rat(n, 5 * (dof + 1))))

\* C6 as stated: the radius is the formula's value (to the rounding of
\* float64) with dof the number of columns of the feature array.
C6_DofIsColumnCount ==
  tr.cls = "TrustRegion" =>
    Within(tr.trust_radius,
           FromRat(FormulaRadius(Len(tr.trusted),
                                 NumColumns(tr_specs.specs) + tr_specs.pad), F64),
           2, F64)

\* C6 amended: the radius is the formula's value (to the rounding of
\* float64) with dof the number of output specs, one per parameter, however
\* many columns each spec encodes.
C6_DofIsSpecCount ==
  tr.cls = "TrustRegion" =>
    Within(tr.trust_radius,
           FromRat(FormulaRadius(Len(tr.trusted), Len(tr_specs.specs)), F64),
           2, F64)

\* A trust region over a one-hot block, where columns and specs differ.
C6_Witness ==
  /\ tr.cls = "TrustRegion"
  /\ Len(tr.trusted) > 0
  /\ NumColumns(tr_specs.specs) + tr_specs.pad > Len(tr_specs.specs)

DefaultConfig(t) ==
  t.cls = "TrustRegion" \/ (t.min_radius = MinRadius /\ t.dimension_factor = DimensionFactor)

\* The radius TrustRegionWithCategorical computes for n rows and dof columns
\* under its default parameters.
CategoricalRadius(n, dof) ==
  ComputeTrustRadiusCat(CC(Replicate(n, <<>>), dof, <<>>, 0), MinRadius,
                        DimensionFactor, dof)

\* C7 as stated: the radius is never clamped (above dimension_factor *
\* (dof + 1) rows it is strictly above 0.5 and keeps growing), and the 0.1/0.9
\* weighting is a no-op, so that TrustRegion and TrustRegionWithCategorical
\* give the same radius for equal N and dof.
C7_NeverClampedUnweighted ==
  (tr.cls # "unset" /\ DefaultConfig(tr)) =>
    LET n == NumTrusted(tr)
    IN  /\ n > DimensionFactor * (tr.dof + 1) => FLt(Half, tr.trust_radius)
        /\ FLt(tr.trust_radius, RadiusWith(tr, n + 1))
        /\ WeightedCount(n) = FromInt(n)
        /\ tr.trust_radius = CategoricalRadius(n, tr.dof)

\* C7 amended: the radius is never clamped (above dimension_factor *
\* (dof + 1) rows it is strictly above 0.5 and keeps growing, staying on the
\* line of the formula to the rounding of float64), and the 0.1/0.9 weighting
\* changes the value by rounding only: 0.1 * N + 0.9 * N and the radii of the
\* two classes for equal N and dof are within two float64 steps of N and of
\* each other, not always equal.
C7_NeverClampedWeightedByRounding ==
  (tr.cls # "unset" /\ DefaultConfig(tr)) =>
    LET n == NumTrusted(tr)
    IN  /\ n > DimensionFactor * (tr.dof + 1) => FLt(Half, tr.trust_radius)
        /\ FLt(tr.trust_radius, RadiusWith(tr, n + 1))
        /\ Within(tr.trust_radius, FromRat(FormulaRadius(n, tr.dof), F64), 2, F64)
        /\ Within(WeightedCount(n), FromInt(n), 2, F64)
        /\ Within(tr.trust_radius, CategoricalRadius(n, tr.dof), 2, F64)

\* A TrustRegion above 0.5 whose radius is not the one
\* TrustRegionWithCategorical computes for the same N and dof.
C7_Witness ==
  /\ tr.cls = "TrustRegion"
  /\ Len(tr.trusted) > DimensionFactor * (tr.dof + 1)
  /\ FLt(Half, tr.trust_radius)
  /\ tr.trust_radius # CategoricalRadius(Len(tr.trusted), tr.dof)

----------------------------------------------------------------------------
(* Claims about TrustRegion.min_linf_distance (specification SpecTR).      *)

DistanceReturned ==
  /\ last.op = "min_linf_distance"
  /\ last.ok
  /\ tr.cls = "TrustRegion"

Flagged(t, n) ==
  ~t.observations_is_missing.is_none /\ t.observations_is_missing.val[n]

\* C8 as stated: the distance is 0 for every query row equal to a trusted
\* row, whatever the masks.
C8_ZeroAtTrustedRow ==
  DistanceReturned =>
    \A m \in 1..Len(last.arg.xs) :
      (\E n \in 1..Len(tr.trusted) : tr.trusted[n] = last.arg.xs[m]) =>
        last.ret[m] = FZero

\* C8 amended: the distance is 0 for every query row equal to a trusted row
\* that observations_is_missing does not flag, whatever the feature mask and
\* the flags of the other rows.
C8_ZeroAtUnflaggedTrustedRow ==
  DistanceReturned =>
    \A m \in 1..Len(last.arg.xs) :
      (\E n \in 1..Len(tr.trusted) :
         tr.trusted[n] = last.arg.xs[m] /\ ~Flagged(tr, n)) =>
        last.ret[m] = FZero

\* A query equal to the unflagged one of two different trusted rows, the
\* other being flagged, under a feature mask.
C8_Witness ==
  /\ DistanceReturned
  /\ Len(tr.trusted) = 2
  /\ tr.trusted[1] # tr.trusted[2]
  /\ ~tr.feature_is_missing.is_none
  /\ \E n \in 1..2 :
       /\ tr.trusted[n] = last.arg.xs[1]
       /\ ~Flagged(tr, n)
       /\ Flagged(tr, 3 - n)
  /\ last.ret[1] = FZero

\* The least of a non-empty set of distances.
Least(S) == CHOOSE d \in S : \A e \in S : FLe(d, e)

\* The distance of x to the closest row that is not flagged, +infinity when
\* every row is flagged.
DistanceToUnflagged(t, x) ==
  LET rows == {n \in 1..Len(t.trusted) : ~Flagged(t, n)}
      unmasked == [t EXCEPT !.observations_is_missing = None]
  IN  IF rows = {} THEN Inf
      ELSE Least({LinfToRow(unmasked, CapsArray(t), x, n) : n \in rows})

\* C9: a trusted row flagged in observations_is_missing is at distance
\* +infinity from every query row, so the distance returned is the least
\* distance to the rows that are not flagged, whatever the spec types.
C9_FlaggedNeverMatch ==
  DistanceReturned =>
    \A m \in 1..Len(last.arg.xs) :
      /\ \A n \in 1..Len(tr.trusted) :
           Flagged(tr, n) => LinfToRow(tr, CapsArray(tr), last.arg.xs[m], n) = Inf
      /\ last.ret[m] = DistanceToUnflagged(tr, last.arg.xs[m])

----------------------------------------------------------------------------
(* Claims about the gated acquisition (specification SpecGate).            *)

AcquisitionReturned ==
  /\ last.op = "acquisition_on_array(xs)"
  /\ last.ok

\* C3: with use_trust_region and a radius below 0.5, a row farther than the
\* radius from the trusted rows gets -1e12 - distance and a row at distance
\* at most the radius (equality included) keeps its acquisition value;
\* without use_trust_region or with a radius of 0.5 or more every row keeps
\* its acquisition value; the comparisons are those of the arrays' precision.
C3_Gating ==
  AcquisitionReturned =>
    IF use_trust_region /\ FLt(tr.trust_radius, FromRat(Rat(1, 2), F64))
    THEN LET distance == MinLinfDistance(tr, last.arg.xs).val
             radius == Cast(tr.trust_radius, Precision(x64))
         IN  \A f \in 1..Len(last.arg.acq) : \A m \in 1..Len(last.arg.acq[f]) :
               /\ FLt(radius, distance[m]) =>
                    last.ret[f][m] = Penalty(distance[m], x64)
               /\ FLe(distance[m], radius) =>
                    last.ret[f][m] = last.arg.acq[f][m]
    ELSE last.ret = last.arg.acq

\* A batch with one row exactly at the radius (kept) and one beyond it
\* (penalized).
C3_Witness ==
  /\ AcquisitionReturned
  /\ use_trust_region
  /\ FLt(tr.trust_radius, FromRat(Rat(1, 2), F64))
  /\ Len(last.arg.acq[1]) = 2
  /\ LET distance == MinLinfDistance(tr, last.arg.xs).val
         radius == Cast(tr.trust_radius, Precision(x64))
     IN  \E m \in 1..2 :
           /\ distance[m] = radius
           /\ last.ret[1][m] = last.arg.acq[1][m]
           /\ FLt(radius, distance[3 - m])
           /\ last.ret[1][3 - m] # last.arg.acq[1][3 - m]

\* C4: with gating active the penalized score is strictly decreasing in the
\* distance (of two rows out of the region the farther scores strictly
\* lower), and a row out of the region scores below every row in the region
\* whose acquisition value is above -1e12.
C4_PenaltyStrictlyDecreasing ==
  (AcquisitionReturned /\ GatingActive(use_trust_region, tr)) =>
    LET distance == MinLinfDistance(tr, last.arg.xs).val
        out(m) == FLt(Cast(tr.trust_radius, Precision(x64)), distance[m])
        floor == MinusE12[Precision(x64)]
    IN  \A f \in 1..Len(last.arg.acq) :
          \A m1, m2 \in 1..Len(last.arg.acq[f]) :
            /\ (out(m1) /\ out(m2) /\ FLt(distance[m1], distance[m2])) =>
                 FLt(last.ret[f][m2], last.ret[f][m1])
            /\ (out(m1) /\ ~out(m2) /\ FLt(floor, last.arg.acq[f][m2])) =>
                 FLt(last.ret[f][m1], last.ret[f][m2])

\* The type of the spec each column belongs to.
RECURSIVE ColumnTypes(_)
ColumnTypes(specs) ==
  IF specs = <<>> THEN <<>>
  ELSE Replicate(IF Head(specs).type = "ONEHOT_EMBEDDING"
                 THEN Head(specs).num_dimensions ELSE 1, Head(specs).type)
       \o ColumnTypes(Tail(specs))

\* x and trusted row n agree on every column outside the one-hot blocks.
DiffersOnlyInOneHot(x, n) ==
  \A d \in 1..Len(x) :
    ColumnTypes(tr_specs.specs)[d] # "ONEHOT_EMBEDDING" => x[d] = tr.trusted[n][d]

\* C10: every column of a ONEHOT_EMBEDDING spec is capped at the radius, so
\* a query row that differs from a trusted row, not flagged as missing, only
\* inside one-hot blocks is at distance at most the radius and keeps its
\* acquisition value.
C10_OneHotCapped ==
  (AcquisitionReturned /\ use_trust_region /\ tr.cls = "TrustRegion") =>
    /\ \A d \in 1..Len(ColumnTypes(tr_specs.specs)) :
         ColumnTypes(tr_specs.specs)[d] = "ONEHOT_EMBEDDING" =>
           tr.max_distances[d] = tr.trust_radius
    /\ \A m \in 1..Len(last.arg.xs) :
         (\E n \in 1..Len(tr.trusted) :
            ~Flagged(tr, n) /\ DiffersOnlyInOneHot(last.arg.xs[m], n)) =>
           /\ FLe(MinLinfDistance(tr, last.arg.xs).val[m],
                  Cast(tr.trust_radius, Precision(x64)))
           /\ \A f \in 1..Len(last.arg.acq) : last.ret[f][m] = last.arg.acq[f][m]

\* Gating is active, and a row that differs from an unflagged trusted row in
\* its one-hot block only keeps its value while the other row of the batch
\* is penalized.
C10_Witness ==
  /\ AcquisitionReturned
  /\ GatingActive(use_trust_region, tr)
  /\ tr.cls = "TrustRegion"
  /\ Len(last.arg.xs) = 2
  /\ \E n \in 1..Len(tr.trusted) :
       /\ ~Flagged(tr, n)
       /\ DiffersOnlyInOneHot(last.arg.xs[1], n)
       /\ last.arg.xs[1] # tr.trusted[n]
  /\ last.ret[1][1] = last.arg.acq[1][1]
  /\ last.ret[1][2] # last.arg.acq[1][2]

----------------------------------------------------------------------------
(* Claims about padded feature columns (specification SpecPad).            *)

\* The batches that differ from xs at most in the padded columns, those
\* beyond the columns the specs encode.
PaddingVariants(xs) ==
  {ys \in QueryBatches(QueryShape, Len(xs), FineVals) :
     \A m \in 1..Len(xs) : \A d \in 1..NumColumns(QueryShape.specs) :
       ys[m][d] = xs[m][d]}

\* The distances and the outcome of the call are those of every batch of
\* PaddingVariants.
SameOnPaddingVariants ==
  \A ys \in PaddingVariants(last.arg.xs) :
    /\ MinLinfDistance(tr, ys) = MinLinfDistance(tr, last.arg.xs)
    /\ Call(last.op, last.arg, AcquisitionOnArray(ys, last.arg.acq)) = last

PaddedCall ==
  /\ last.op = "acquisition_on_array(xs)"
  /\ use_trust_region
  /\ QueryShape.pad > 0
  /\ Len(last.arg.acq) > 0

\* C11 as stated: for the single and the multi builder built on padded
\* features with a feature_is_missing mask, two query batches that differ
\* only in the flagged columns get the same distances and the same
\* in-region/penalized outcomes.
C11_PaddingIgnored ==
  PaddedCall => SameOnPaddingVariants

\* C11 amended: that holds for the single builder, which hands the mask to
\* its TrustRegion (the multi builder deletes it).
C11_PaddingIgnoredBySingle ==
  (PaddedCall /\ kind = "single") => SameOnPaddingVariants

\* A row kept in the region although its padded column is farther from the
\* trusted row's than the radius.
C11_Witness ==
  /\ PaddedCall
  /\ kind = "single"
  /\ last.ok
  /\ GatingActive(use_trust_region, tr)
  /\ Len(tr.trusted) = 1
  /\ \E d \in 1..Len(last.arg.xs[1]) :
       /\ d > NumColumns(QueryShape.specs)
       /\ FLt(tr.trust_radius, Grid(Abs(last.arg.xs[1][d] - tr.trusted[1][d])))
  /\ last.ret[1][1] = last.arg.acq[1][1]

----------------------------------------------------------------------------
(* Claims about the multi-acquisition builder and mixed features           *)
(* (specification Spec).                                                   *)

\* The last operation was a build by the multi-acquisition builder on
\* continuous-and-categorical features.
MultiBuildOnCC ==
  /\ kind = "multi"
  /\ last.op = "build"
  /\ captured[nbuilds].form # "array"

\* C18: a build of GPBanditMultiAcquisitionBuilder on continuous-and-categorical
\* features raises the ValueError when use_trust_region is set and succeeds
\* when it is not; and the acquisition closure of a multi builder with
\* use_trust_region is never one of a build on such features (so the builder is
\* never usable on them with the gating missing).
C18_MultiRejectsCC ==
  /\ MultiBuildOnCC =>
       IF use_trust_region
       THEN ~last.ok /\ last.err = Unsupported /\ acquisition_on_array # nbuilds
       ELSE last.ok /\ built /\ acquisition_on_array = nbuilds
  /\ (kind = "multi" /\ use_trust_region /\ acquisition_on_array # 0) =>
       /\ captured[acquisition_on_array].form = "array"
       /\ tr.cls = "TrustRegion"
  /\ (kind = "multi" /\ built) => acquisition_on_array # 0

\* A multi builder whose first build, on continuous-and-categorical features
\* with use_trust_region, has raised and left it unbuilt.
C18_Witness ==
  /\ MultiBuildOnCC
  /\ use_trust_region
  /\ nbuilds = 1
  /\ ~last.ok
  /\ ~built
  /\ predict_on_array = 1

----------------------------------------------------------------------------
(* Claims about an empty trusted set (specification SpecGate).             *)

\* A builder with use_trust_region built on array features of no rows.
BuiltOnNoRows ==
  /\ built
  /\ use_trust_region
  /\ tr.cls = "TrustRegion"
  /\ Len(tr.trusted) = 0

\* C19: a TrustRegion of no trusted rows has trust_radius = min_radius, and
\* min_linf_distance and the gated acquisition_on_array return a value for
\* every query row without raising.
C19_EmptyTrustedIsValid ==
  BuiltOnNoRows =>
    /\ tr.trust_radius = MinRadius
    /\ (last.op = "acquisition_on_array(xs)" /\ Len(last.arg.acq) > 0) =>
         /\ MinLinfDistance(tr, last.arg.xs).ok
         /\ Len(MinLinfDistance(tr, last.arg.xs).val) = Len(last.arg.xs)
         /\ last.ok

----------------------------------------------------------------------------
(* Claims about the pool of best results (specification SpecOpt).          *)

\* The pool exists: the loop has been entered.
InLoop == opt.pc \in {"fori_loop", "returned"}

\* The batches the pool was updated with, in order.
PoolUpdates == SelectSeq(opt.log, LAMBDA c : c.fn = "_update_best_results")
RECURSIVE Concat(_)
Concat(seqs) == IF seqs = <<>> THEN <<>> ELSE seqs[1] \o Concat(Tail(seqs))
BatchRewards == [b \in 1..Len(PoolUpdates) |-> PoolUpdates[b].args.rewards]

\* pool holds the largest Len(pool) elements of the multiset all.
Occurrences(seq, v) == Cardinality({i \in 1..Len(seq) : seq[i] = v})
Values(seq) == {seq[i] : i \in 1..Len(seq)}
IsLargestOf(pool, all) ==
  /\ \A v \in Values(pool) : Occurrences(pool, v) <= Occurrences(all, v)
  /\ \A v \in Values(all) :
       Occurrences(all, v) > Occurrences(pool, v) =>
         \A w \in Values(pool) : FLe(v, w)

\* The rewards of the pool after the batches, taken in the order perm, have
\* gone through _update_best_results.
RECURSIVE PoolRewardsAfter(_, _, _)
PoolRewardsAfter(batches, perm, n) ==
  IF n = 0 THEN Replicate(opt.count, FNeg(Inf))
  ELSE UpdateBestResults(
         VectorizedStrategyResults(PoolRewardsAfter(batches, perm, n - 1),
                                   Replicate(opt.count, <<>>)),
         opt.count,
         Replicate(Len(batches[perm[n]]), <<>>),
         batches[perm[n]]).rewards

\* rewards in non-increasing order, for comparing multisets.
Descending(rewards) == Take(rewards, ArgSort(Negate(rewards)))

\* C12: after initialisation and after every _update_best_results the pool has
\* exactly count rows, its rewards are the count largest of the rewards of all
\* batches so far together with count sentinels of -infinity, and the batches
\* taken in any other order give the same multiset of rewards.
C12_PoolHoldsTopCount ==
  InLoop =>
    /\ Len(opt.best_results.rewards) = opt.count
    /\ Len(opt.best_results.features) = opt.count
    /\ Len(PoolUpdates) = opt.i
    /\ IsLargestOf(opt.best_results.rewards,
                   Concat(BatchRewards) \o Replicate(opt.count, FNeg(Inf)))
    /\ opt.pc = "returned" =>
         \A perm \in Permutations(1..Len(PoolUpdates)) :
           Descending(PoolRewardsAfter(BatchRewards, perm, Len(PoolUpdates)))
             = Descending(opt.best_results.rewards)

\* A pool of two rows after two batches of two rows that keeps a reward of the
\* first batch and one of the second, and has dropped a smaller one.
C12_Witness ==
  /\ opt.pc = "fori_loop"
  /\ opt.i = 2
  /\ opt.count = 2
  /\ opt.suggestion_batch_size = 2
  /\ \E v \in Values(opt.best_results.rewards) :
       v \in Values(BatchRewards[1]) /\ v \notin Values(BatchRewards[2])
  /\ \E v \in Values(opt.best_results.rewards) :
       v \in Values(BatchRewards[2]) /\ v \notin Values(BatchRewards[1])
  /\ \E v \in Values(Concat(BatchRewards)) : v \notin Values(opt.best_results.rewards)

----------------------------------------------------------------------------
(* Claims about the steps and the result of optimize (specification        *)
(* SpecOpt).                                                               *)

\* The calls of fn recorded so far.
CallsOf(fn) == SelectSeq(opt.log, LAMBDA c : c.fn = fn)

\* optimize has returned.
Returned == opt.pc = "returned"

\* C13: when (max_evaluations // suggestion_batch_size) * suggestion_batch_size
\* >= count, an optimize call that returns has made exactly
\* max_evaluations // suggestion_batch_size suggest calls and as many update
\* calls, and returns exactly count trials whose 'acquisition' measurements
\* are in non-increasing order.
C13_StepsAndSortedTrials ==
  (/\ Returned
   /\ (opt.max_evaluations \div opt.suggestion_batch_size)
        * opt.suggestion_batch_size >= opt.count) =>
    /\ Len(CallsOf("suggest")) = opt.max_evaluations \div opt.suggestion_batch_size
    /\ Len(CallsOf("update")) = opt.max_evaluations \div opt.suggestion_batch_size
    /\ Len(opt.trials) = opt.count
    /\ \A i \in 1..(Len(opt.trials) - 1) :
         FLe(opt.trials[i + 1].acquisition, opt.trials[i].acquisition)

\* Two steps of batches of one row, and two trials returned, the first with
\* the strictly larger measurement.
C13_Witness ==
  /\ Returned
  /\ opt.suggestion_batch_size = 1
  /\ opt.max_evaluations \div opt.suggestion_batch_size = 2
  /\ opt.count = 2
  /\ Len(CallsOf("suggest")) = 2
  /\ Len(opt.trials) = 2
  /\ FLt(opt.trials[2].acquisition, opt.trials[1].acquisition)

\* The rows score_fn was given inside the loop.
RECURSIVE RowsIn(_)
RowsIn(calls) ==
  IF calls = <<>> THEN 0 ELSE Len(calls[1].args.features) + RowsIn(Tail(calls))
RowsScoredInLoop ==
  RowsIn(SelectSeq(opt.log, LAMBDA c : c.fn = "score_fn" /\ c.step > 0))

\* The loop has run as far as it goes with the rows it may score.
LoopWithinBudget ==
  /\ InLoop =>
       /\ opt.i <= opt.max_evaluations \div opt.suggestion_batch_size
       /\ RowsScoredInLoop = opt.i * opt.suggestion_batch_size
  /\ Returned =>
       /\ opt.i = opt.max_evaluations \div opt.suggestion_batch_size
       /\ RowsScoredInLoop <= opt.max_evaluations
       /\ opt.max_evaluations % opt.suggestion_batch_size # 0 =>
            RowsScoredInLoop < opt.max_evaluations

----------------------------------------------------------------------------
(* Claims about the order of the calls (specification SpecOpt).            *)

\* The calls of the strategy, in order.
StrategyCalls ==
  SelectSeq(opt.log, LAMBDA c : c.fn \in {"init_state", "suggest", "update"})

\* The calls of score_fn inside the loop, in order: one per step.
LoopScores == SelectSeq(opt.log, LAMBDA c : c.fn = "score_fn" /\ c.step > 0)

\* init_state first and once, then suggest and update in turn; each suggest is
\* given the state the call before it returned, each update the state of its
\* suggest.
StrictlyDriven ==
  /\ InLoop => Len(StrategyCalls) = 1 + 2 * opt.i
  /\ ~InLoop /\ opt.pc # "raised" => Len(StrategyCalls) = 0
  /\ \A n \in 1..Len(StrategyCalls) :
       StrategyCalls[n].fn = IF n = 1 THEN "init_state"
                             ELSE IF n % 2 = 0 THEN "suggest" ELSE "update"
  /\ \A n \in 2..Len(StrategyCalls) :
       StrategyCalls[n].args.state =
         IF n % 2 = 0 THEN StrategyCalls[n - 1].ret
         ELSE StrategyCalls[n - 1].args.state

\* Step k: score_fn is given the features update is given, update is given
\* score_fn's rewards, and the pool is updated from that batch and the pool
\* the step before left.
BatchOfStepOnly ==
  /\ Len(LoopScores) = Len(PoolUpdates)
  /\ \A k \in 1..Len(PoolUpdates) :
       /\ 2 * k + 1 <= Len(StrategyCalls)
       /\ LoopScores[k].args.features = StrategyCalls[2 * k + 1].args.features
       /\ LoopScores[k].ret = StrategyCalls[2 * k + 1].args.rewards
       /\ PoolUpdates[k].args.features = StrategyCalls[2 * k + 1].args.features
       /\ PoolUpdates[k].args.rewards = StrategyCalls[2 * k + 1].args.rewards
       /\ PoolUpdates[k].args.best_results =
            IF k = 1
            THEN InitBestResults(opt.count, opt.converter.n_padded_features)
            ELSE PoolUpdates[k - 1].ret
  /\ InLoop =>
       opt.best_results =
         IF Len(PoolUpdates) = 0
         THEN InitBestResults(opt.count, opt.converter.n_padded_features)
         ELSE PoolUpdates[Len(PoolUpdates)].ret

\* The batch update k is given, and the batch the suggest before it returned.
UpdateBatch(k) == StrategyCalls[2 * k + 1].args.features
SuggestedBatch(k) == StrategyCalls[2 * k].ret

\* C15 as claimed: init_state once and before any suggest, suggest and update
\* in turn with the state threaded, every update given exactly the batch the
\* suggest before it returned with score_fn's rewards for it, and the pool
\* updated from the batch of the step and the pool of the step before.
C15_UpdateGetsSuggestedBatch ==
  /\ StrictlyDriven
  /\ BatchOfStepOnly
  /\ \A k \in 1..Len(PoolUpdates) : UpdateBatch(k) = SuggestedBatch(k)

\* C15 as the program has it: the same, except that under a padded converter
\* the batch that is scored and given to update is the suggested batch with
\* its padded columns set to zero.
C15_UpdateGetsMaskedBatch ==
  /\ StrictlyDriven
  /\ BatchOfStepOnly
  /\ \A k \in 1..Len(PoolUpdates) :
       /\ Len(UpdateBatch(k)) = Len(SuggestedBatch(k))
       /\ \A j \in 1..Len(UpdateBatch(k)) :
            /\ Len(UpdateBatch(k)[j]) = Len(SuggestedBatch(k)[j])
            /\ \A d \in 1..Len(UpdateBatch(k)[j]) :
                 UpdateBatch(k)[j][d] =
                   IF opt.converter.padded /\ d > opt.converter.n_features
                   THEN 0 ELSE SuggestedBatch(k)[j][d]

\* Two steps under a padded converter with a strategy that writes into the
\* padded columns: the second update is given another batch than the second
\* suggest returned, and the state the first update returned went to the
\* second suggest.
C15_Witness ==
  /\ InLoop
  /\ opt.i = 2
  /\ opt.converter.padded
  /\ UpdateBatch(2) # SuggestedBatch(2)
  /\ StrategyCalls[4].args.state = StrategyCalls[3].ret
  /\ StrategyCalls[3].ret # StrategyCalls[1].ret

----------------------------------------------------------------------------
(* Claims about seeds and repeated runs (specification SpecOpt).           *)

\* optimize has come to its end.
Ended == opt.pc \in {"returned", "raised"}

\* The k-th of the num keys split from key.
Child(key, num, k) == [key EXCEPT !.path = Append(@, [num |-> num, k |-> k])]

\* The key of the top-level seed, and the key step k of the loop splits.
RootKey == PRNGKey(opt.seed_arg)
RECURSIVE LoopKey(_)
LoopKey(k) == IF k = 1 THEN Child(RootKey, 2, 2) ELSE Child(LoopKey(k - 1), 3, 3)

\* The seed given to the n-th call of the strategy.
SeedGiven(n) == StrategyCalls[n].args.seed

\* C16: a second run of the same call with the same deterministic strategy
\* and score_fn gives the same trials (and the same calls); the seed of
\* init_state is the first half of the split of the top-level key, the seeds
\* of suggest and update of step k are the first and second of the three-way
\* split of the key of that step, the third being the key of the next step;
\* and no key is given to two calls or both given to a call and split.
C16_DeterministicSeeds ==
  /\ Ended => Optimize(CallOf(opt)) = opt
  /\ \A n \in 1..Len(StrategyCalls) :
       SeedGiven(n) = IF n = 1 THEN Child(RootKey, 2, 1)
                      ELSE IF n % 2 = 0 THEN Child(LoopKey(n \div 2), 3, 1)
                      ELSE Child(LoopKey(n \div 2), 3, 2)
  /\ InLoop => opt.loop_seed = LoopKey(opt.i + 1)
  /\ \A n \in 1..Len(StrategyCalls) :
       /\ \A m \in 1..Len(StrategyCalls) : m # n => SeedGiven(m) # SeedGiven(n)
       /\ SeedGiven(n) # RootKey
       /\ \A k \in 1..(opt.i + 1) : SeedGiven(n) # LoopKey(k)

\* A call that has returned trials after two steps of a strategy that draws
\* its suggestions from the seed.
C16_Witness ==
  /\ Returned
  /\ opt.i = 2
  /\ opt.strategy.name = "random"
  /\ Len(opt.trials) = 2
  /\ Len(StrategyCalls) = 5
  /\ SeedGiven(2) # SeedGiven(4)
  /\ SuggestedBatch(1) # SuggestedBatch(2)

----------------------------------------------------------------------------
(* Claims about jit_loop (specification SpecOpt).                          *)

\* The same call with the other value of jit_loop, run to its end.
WithOtherJitLoop == Optimize([CallOf(opt) EXCEPT !.jit_loop = ~opt.jit_loop])

\* Two runs agree: the same calls of the strategy and of score_fn, the same
\* number of steps, the same outcome and trials.
SameRun(a, b) ==
  /\ a.pc = b.pc
  /\ a.log = b.log
  /\ a.i = b.i
  /\ a.trials = b.trials

----------------------------------------------------------------------------
(* Claims about prior trials (specification SpecOpt).                      *)

\* prior_trials is neither None nor empty.
PriorsGiven == ~opt.prior_trials.is_none /\ Len(opt.prior_trials.val) > 0

\* The calls of score_fn before the loop, and the call of init_state.
PriorScores == SelectSeq(opt.log, LAMBDA c : c.fn = "score_fn" /\ c.step = 0)
InitStateCalls == CallsOf("init_state")

\* features holds the trials in the order of their creation times, one row
\* per trial with the trial's parameter in the first column, and, under the
\* padded converter, rows of zeros after them.
HoldsSortedTrials(features, trials) ==
  /\ Len(features) >= Len(trials)
  /\ opt.converter.padded \/ Len(features) = Len(trials)
  /\ \E perm \in Permutations(1..Len(trials)) :
       \A r \in 1..Len(trials) :
         /\ features[r][1] = trials[perm[r]].x
         /\ r > 1 => trials[perm[r - 1]].creation_time <= trials[perm[r]].creation_time
  /\ \A r \in (Len(trials) + 1)..Len(features) :
       \A d \in 1..Len(features[r]) : features[r][d] = 0

\* C20: with prior trials, score_fn is called exactly once before the loop,
\* before init_state, on the features of the trials sorted by creation time
\* (rows beyond the trials zeroed under the padded converter), and init_state
\* is given those features and the rewards score_fn returned; with None or no
\* prior trials score_fn is not called before the loop and init_state is given
\* None for both.
C20_PriorTrialsScoredOnce ==
  opt.pc # "optimize" =>
    IF PriorsGiven
    THEN /\ Len(PriorScores) = 1
         /\ opt.log[1] = PriorScores[1]
         /\ HoldsSortedTrials(PriorScores[1].args.features, opt.prior_trials.val)
         /\ Len(PriorScores[1].ret) = Len(PriorScores[1].args.features)
         /\ \A n \in 1..Len(InitStateCalls) :
              /\ InitStateCalls[n].args.features = Some(PriorScores[1].args.features)
              /\ InitStateCalls[n].args.rewards = Some(PriorScores[1].ret)
    ELSE /\ Len(PriorScores) = 0
         /\ \A n \in 1..Len(InitStateCalls) :
              /\ InitStateCalls[n].args.features = None
              /\ InitStateCalls[n].args.rewards = None

\* One prior trial under the padded converter: init_state has been given two
\* rows, the second of zeros, with a reward for each.
C20_Witness ==
  /\ InLoop
  /\ PriorsGiven
  /\ opt.converter.padded
  /\ Len(opt.prior_trials.val) = 1
  /\ Len(InitStateCalls) = 1
  /\ Len(InitStateCalls[1].args.features.val) = 2
  /\ InitStateCalls[1].args.features.val[2] = Replicate(opt.converter.n_padded_features, 0)
  /\ Len(InitStateCalls[1].args.rewards.val) = 2

----------------------------------------------------------------------------
(* Claims about the rows optimize returns (specification SpecOpt).         *)

\* The rows score_fn scored inside the loop, each with the reward it got.
ScoredRows ==
  UNION {{[features |-> LoopScores[k].args.features[j], reward |-> LoopScores[k].ret[j]] :
            j \in 1..Len(LoopScores[k].ret)} : k \in 1..Len(LoopScores)}

\* A sentinel of the initial pool: a reward of -infinity.
IsSentinel(reward) == reward = FNeg(Inf)

\* C21: optimize returns at most count trials, every one of them from a row
\* that the strategy suggested and score_fn scored in this run; no sentinel
\* row of the initial pool (reward -infinity, features zero) is returned, also
\* when fewer than count rows were scored.
C21_OnlyScoredRowsReturned ==
  Returned =>
    /\ Len(opt.trials) <= opt.count
    /\ \A i \in 1..Len(opt.trials) :
         /\ ~IsSentinel(opt.trials[i].acquisition)
         /\ \E row \in ScoredRows :
              /\ opt.trials[i].parameters = ToParameters(opt.converter, row.features)
              /\ opt.trials[i].acquisition = row.reward

----------------------------------------------------------------------------
(* Claims about the pairing of features and rewards (specification         *)
(* SpecOpt).                                                               *)

\* Row r of the pool, as a pair.
PoolRow(r) ==
  [features |-> opt.best_results.features[r], reward |-> opt.best_results.rewards[r]]

\* C24: in every state of the pool each row that is no sentinel carries the
\* reward score_fn returned for that row's features (a sentinel carries zero
\* features), and optimize returns one trial per row of the final pool, with
\* the parameters converted from the row's features and the one measurement
\* 'acquisition' equal to the row's reward.
C24_FeaturesAndRewardsPaired ==
  /\ InLoop =>
       \A r \in 1..Len(opt.best_results.rewards) :
         IF IsSentinel(PoolRow(r).reward)
         THEN \A d \in 1..Len(PoolRow(r).features) : PoolRow(r).features[d] = 0
         ELSE /\ PoolRow(r) \in ScoredRows
              /\ PoolRow(r).reward = Score(opt.score_fn, PoolRow(r).features)
  /\ Returned =>
       /\ \A i \in 1..Len(opt.trials) : DOMAIN opt.trials[i] = {"parameters", "acquisition"}
       /\ \E perm \in Permutations(1..Len(opt.best_results.rewards)) :
            /\ Len(opt.trials) = Len(opt.best_results.rewards)
            /\ \A i \in 1..Len(opt.trials) :
                 /\ opt.trials[i].parameters =
                      ToParameters(opt.converter, PoolRow(perm[i]).features)
                 /\ opt.trials[i].acquisition = PoolRow(perm[i]).reward

\* A call that has returned two trials of different parameters and rewards,
\* the first from a row scored in the second step and the second from a row
\* scored in another step.
C24_Witness ==
  /\ Returned
  /\ opt.count = 2
  /\ opt.i >= 2
  /\ Len(opt.trials) = 2
  /\ ~IsSentinel(opt.trials[2].acquisition)
  /\ opt.trials[1].parameters # opt.trials[2].parameters
  /\ opt.trials[1].acquisition # opt.trials[2].acquisition
  /\ opt.trials[1].acquisition = PoolRow(1).reward
  /\ opt.trials[1].acquisition \in Values(LoopScores[2].ret)
  /\ opt.trials[2].acquisition \notin Values(LoopScores[2].ret)

----------------------------------------------------------------------------
(* Claims about the masking of padded columns (specification SpecOpt).     *)

\* The padded columns of a row: those after the columns of the parameters.
PaddedColumns(row) == {d \in 1..Len(row) : d > opt.converter.n_features}

\* batch with its padded columns set to zero.
WithPaddedColumnsZero(batch) ==
  [j \in 1..Len(batch) |->
     [d \in 1..Len(batch[j]) |-> IF d \in PaddedColumns(batch[j]) THEN 0 ELSE batch[j][d]]]

\* C25: in every step score_fn, strategy.update and the update of the pool are
\* given one and the same batch: under a padded converter the batch suggest
\* returned with every padded column set to zero, under an unpadded converter
\* the batch suggest returned; and under a padded converter every feature row
\* of the pool has zeros in all padded columns.
C25_PaddedColumnsMasked ==
  /\ \A k \in 1..Len(PoolUpdates) :
       /\ Len(CallsOf("suggest")) >= k /\ Len(CallsOf("update")) >= k
       /\ Len(LoopScores) >= k
       /\ LoopScores[k].args.features =
            IF opt.converter.padded
            THEN WithPaddedColumnsZero(CallsOf("suggest")[k].ret)
            ELSE CallsOf("suggest")[k].ret
       /\ CallsOf("update")[k].args.features = LoopScores[k].args.features
       /\ PoolUpdates[k].args.features = LoopScores[k].args.features
  /\ (InLoop /\ opt.converter.padded) =>
       \A r \in 1..Len(opt.best_results.features) :
         /\ PaddedColumns(opt.best_results.features[r]) # {}
         /\ \A d \in PaddedColumns(opt.best_results.features[r]) :
              opt.best_results.features[r][d] = 0

\* Under a padded converter a strategy has suggested a batch of two rows with
\* ones in the padded column, and the pool holds both rows, their padded
\* column zero.
C25_Witness ==
  /\ InLoop
  /\ opt.converter.padded
  /\ opt.suggestion_batch_size = 2
  /\ opt.count = 2
  /\ opt.i = 1
  /\ \A j \in 1..2 :
       \A d \in PaddedColumns(CallsOf("suggest")[1].ret[j]) :
         CallsOf("suggest")[1].ret[j][d] = 1
  /\ \A r \in 1..2 :
       /\ ~IsSentinel(opt.best_results.rewards[r])
       /\ \A d \in PaddedColumns(opt.best_results.features[r]) :
            opt.best_results.features[r][d] = 0

----------------------------------------------------------------------------
(* Claims about a build() that raises (specification Spec).                *)

\* What the five accessors return in the current state.
Observable ==
  [acquisition_problem |-> Guard(<<acquisition_problem>>),
   acquisition_on_array |-> Guard(<<acquisition_on_array>>),
   predict_on_array |-> Guard(<<predict_on_array>>),
   sample_on_array |-> Guard(<<sample_on_array>>),
   metadata_dict |-> IF ~built THEN Raise(NotBuilt)
                     ELSE IF ~use_trust_region THEN Ok(<<>>)
                     ELSE Ok(<<tr.trust_radius>>)]

\* The step is a build() that raised.
BuildRaised == last'.op = "build" /\ nbuilds' = nbuilds + 1 /\ ~last'.ok

\* C28: a build() that raises changes nothing an accessor shows: every
\* accessor of a builder never built still raises the not-built error, and
\* every accessor of a builder built before returns what it returned before
\* the call.
C28_FailedBuildChangesNothing ==
  [][BuildRaised => Observable' = Observable]_vars

----------------------------------------------------------------------------
(* Claims about VizierSearch (specification SpecSearch).                   *)

\* The step is a call of op; NewCall is the call.
NewCall == srch'.log[Len(srch'.log)]
IsCall(op) == Len(srch'.log) = Len(srch.log) + 1 /\ NewCall.op = op

\* The searcher has a study client.
Configured == ~srch.study_client.is_none

\* The study of the searcher in the service, when there is one.
HasStudy(s) == s.study_id \in DOMAIN s.service.studies
StudyOf(s) == s.service.studies[s.study_id]

\* C22: set_search_properties on a searcher with a study client returns False
\* and leaves study_client, _metric and the service as they are, whatever its
\* arguments; on a searcher without one it raises ValueError for a mode other
\* than 'min' and 'max' and creates no study, and else it creates the study
\* with goal MAXIMIZE for 'max' and MINIMIZE for 'min' and returns True.
C22_SetSearchProperties ==
  [][IsCall("set_search_properties") =>
       IF Configured
       THEN /\ NewCall.ok /\ NewCall.ret = FALSE
            /\ srch'.study_client = srch.study_client
            /\ srch'.metric = srch.metric
            /\ srch'.service = srch.service
       ELSE IF NewCall.arg.mode \notin {Some("min"), Some("max")}
       THEN /\ ~NewCall.ok
            /\ NewCall.err = "ValueError: 'mode' must be one of ['min', 'max']"
            /\ srch'.study_client = None
            /\ srch'.service = srch.service
       ELSE /\ NewCall.ok /\ NewCall.ret = TRUE
            /\ ~HasStudy(srch)
            /\ HasStudy(srch')
            /\ srch'.study_client = Some(srch.study_id)
            /\ Len(StudyOf(srch').metric_information) = 1
            /\ StudyOf(srch').metric_information[1].goal =
                 IF NewCall.arg.mode = Some("max") THEN "MAXIMIZE" ELSE "MINIMIZE"]_vars

\* A searcher made without a problem was given a mode of None, then 'max' and
\* then 'min' with another metric: the third call returned False and the study
\* is the one the second created.
C22_Witness ==
  /\ Len(srch.log) = 3
  /\ \A n \in 1..3 : srch.log[n].op = "set_search_properties"
  /\ ~srch.log[1].ok
  /\ srch.log[2].ok /\ srch.log[2].ret = TRUE /\ srch.log[2].arg.mode = Some("max")
  /\ srch.log[3].ok /\ srch.log[3].ret = FALSE /\ srch.log[3].arg.mode = Some("min")
  /\ srch.log[3].arg.metric # srch.log[2].arg.metric
  /\ StudyOf(srch).metric_information[1].goal = "MAXIMIZE"
  /\ srch.metric.name = StudyOf(srch).metric_information[1].name

\* Every call so far was a suggest that returned a suggestion, each for
\* another Ray trial id.
OnlySuggestions ==
  /\ \A n \in 1..Len(srch.log) :
       /\ srch.log[n].op = "suggest"
       /\ srch.log[n].ok
       /\ ~srch.log[n].ret.finished
  /\ \A n, m \in 1..Len(srch.log) :
       n # m => srch.log[n].arg.trial_id # srch.log[m].arg.trial_id

\* C23: after n suggest calls with distinct Ray trial ids that each got a
\* suggestion, exactly n trials are active, each Ray trial id maps to a trial
\* of the service and its call returned the parameters of that trial; a
\* suggest that gets no suggestion returns Searcher.FINISHED and leaves the
\* active trials and the service as they are.
C23_SuggestRegisters ==
  /\ [](OnlySuggestions =>
          /\ Cardinality(DOMAIN srch.active_trials) = Len(srch.log)
          /\ \A n \in 1..Len(srch.log) :
               /\ srch.log[n].arg.trial_id \in DOMAIN srch.active_trials
               /\ srch.active_trials[srch.log[n].arg.trial_id]
                    \in 1..Len(srch.service.trials)
               /\ srch.log[n].ret =
                    Parameters(srch.active_trials[srch.log[n].arg.trial_id]))
  /\ [][(IsCall("suggest") /\ Configured) =>
          /\ NewCall.ok
          /\ NewCall.ret.finished =>
               /\ NewCall.ret = FINISHED
               /\ srch'.active_trials = srch.active_trials
               /\ srch'.service = srch.service
          /\ ~NewCall.ret.finished =>
               /\ NewCall.arg.trial_id \in DOMAIN srch'.active_trials
               /\ NewCall.ret = Parameters(srch'.active_trials[NewCall.arg.trial_id])]_vars

\* Two suggest calls for two Ray trial ids have registered two trials of the
\* service.
C23_Witness ==
  /\ Len(srch.log) = 2
  /\ OnlySuggestions
  /\ DOMAIN srch.active_trials = RayTrialIds
  /\ srch.active_trials["ray_1"] # srch.active_trials["ray_2"]
  /\ Len(srch.service.trials) = 2

\* The Ray trial ids suggest has registered so far, and those a restore has
\* loaded.
Suggested ==
  {srch.log[n].arg.trial_id : n \in {m \in 1..Len(srch.log) :
     srch.log[m].op = "suggest" /\ srch.log[m].ok /\ ~srch.log[m].ret.finished}}
Loaded ==
  IF \E n \in 1..Len(srch.log) : srch.log[n].op = "restore" /\ srch.log[n].ok
  THEN DOMAIN srch.file.val.ray_to_vizier_trial_ids ELSE {}

\* The step is a call that raised RuntimeError and left the active trials and
\* the service (the study and what was sent to its trials) as they were.
RaisedRuntimeError(err) ==
  /\ ~NewCall.ok
  /\ NewCall.err = err
  /\ srch'.active_trials = srch.active_trials
  /\ srch'.service = srch.service
  /\ srch'.study_client = srch.study_client

\* C26: suggest on a searcher without a study raises RuntimeError, and
\* on_trial_result and on_trial_complete for a Ray trial id that no suggest
\* returned and no restore loaded raise RuntimeError; none of them changes the
\* active trials or the study, and nothing is sent to a trial.
C26_UnknownTrialRaises ==
  [][/\ (IsCall("suggest") /\ ~Configured) =>
          RaisedRuntimeError(
            "RuntimeError: VizierSearch not initialized! Set a search space first.")
     /\ ((IsCall("on_trial_result") \/ IsCall("on_trial_complete"))
           /\ NewCall.arg.trial_id \notin Suggested \cup Loaded) =>
          RaisedRuntimeError("RuntimeError: No active trial")]_vars

\* A searcher, configured by now, on which a suggest has raised for want of
\* a study and a result or completion for an unknown Ray trial id has raised.
C26_Witness ==
  /\ Len(srch.log) >= 3
  /\ \E n \in 1..Len(srch.log) :
       /\ srch.log[n].op = "suggest"
       /\ ~srch.log[n].ok
  /\ \E n \in 1..Len(srch.log) :
       /\ srch.log[n].op \in {"on_trial_result", "on_trial_complete"}
       /\ ~srch.log[n].ok
       /\ srch.log[n].err = "RuntimeError: No active trial"
  /\ Configured

\* The Ray trial id was completed through on_trial_complete and neither
\* suggested again nor loaded by a restore since.
Completed(trial_id) ==
  \E n \in 1..Len(srch.log) :
    /\ srch.log[n].op = "on_trial_complete"
    /\ srch.log[n].ok
    /\ srch.log[n].arg.trial_id = trial_id
    /\ \A m \in (n + 1)..Len(srch.log) :
         /\ srch.log[m].op # "restore"
         /\ srch.log[m].op = "suggest" => srch.log[m].arg.trial_id # trial_id

\* C29: after on_trial_complete for a Ray trial id, with or without error, a
\* later on_trial_result or on_trial_complete for that id raises RuntimeError
\* and sends nothing more to the Vizier trial.
C29_CompletedTrialIsInactive ==
  [][((IsCall("on_trial_result") \/ IsCall("on_trial_complete"))
        /\ Completed(NewCall.arg.trial_id)) =>
       RaisedRuntimeError("RuntimeError: No active trial")]_vars

\* The last two calls were a save and a restore of its checkpoint, and the
\* restore found the study in the service.
RestoredAfterSave ==
  /\ Len(srch.log) >= 2
  /\ srch.log[Len(srch.log) - 1].op = "save"
  /\ srch.log[Len(srch.log)].op = "restore"
  /\ srch.log[Len(srch.log)].ok

\* C30: save followed by restore of the checkpoint, the service still holding
\* the study, gives the searcher it was saved from: the same study_id, the
\* same Vizier trial id for every Ray trial id, and the same _metric, the name
\* of the optimized metric.
C30_SaveRestoreRoundTrip ==
  RestoredAfterSave =>
    /\ srch.study_id = srch.at_save.val.study_id
    /\ srch.study_client = Some(srch.at_save.val.study_id)
    /\ DOMAIN srch.active_trials = DOMAIN srch.at_save.val.active_trials
    /\ \A t \in DOMAIN srch.active_trials :
         srch.active_trials[t] = srch.at_save.val.active_trials[t]
    /\ srch.metric = srch.at_save.val.metric
    /\ srch.metric.cls = "str"

----------------------------------------------------------------------------
(* Claims about the factories (specification SpecFactory).                 *)

\* recover of the factory's own class was given all that dump returned.
RoundTrip ==
  /\ fac.pc = "recovered"
  /\ fac.cls = fac.factory.cls
  /\ fac.given = fac.metadata

\* C27: recover(f.dump()) of a BBOBExperimenterFactory f is f, name and dim;
\* recover(g.dump()) of a SingleObjectiveExperimenterFactory g over a BBOB
\* base factory has g's base factory, shift, noise_type and
\* num_normalization_samples, and g's discrete_dict and categorical_dict with
\* int keys; and SingleObjectiveExperimenterFactory.recover of metadata
\* without the entry of a BBOB factory raises DecodeError.
C27_DumpRecoverRoundTrip ==
  /\ RoundTrip =>
       /\ fac.recovered.ok
       /\ fac.recovered.val.cls = fac.factory.cls
       /\ IF fac.cls = "BBOBExperimenterFactory"
          THEN /\ fac.recovered.val.name = fac.factory.name
               /\ fac.recovered.val.dim = fac.factory.dim
          ELSE /\ fac.recovered.val.base_factory = fac.factory.base_factory
               /\ fac.recovered.val.shift = fac.factory.shift
               /\ fac.recovered.val.noise_type = fac.factory.noise_type
               /\ fac.recovered.val.num_normalization_samples =
                    fac.factory.num_normalization_samples
               /\ \A d \in {fac.recovered.val.discrete_dict,
                            fac.recovered.val.categorical_dict} : DOMAIN d \subseteq Int
               /\ fac.recovered.val.discrete_dict = fac.factory.discrete_dict
               /\ fac.recovered.val.categorical_dict = fac.factory.categorical_dict
  /\ (/\ fac.pc = "recovered"
      /\ fac.cls = "SingleObjectiveExperimenterFactory"
      /\ BBOB_FACTORY_KEY \notin DOMAIN fac.given) =>
       /\ ~fac.recovered.ok
       /\ fac.recovered.err = "DecodeError: No valid base factory found"

\* A single-objective factory with a shift, a noise type and dicts with the
\* keys 0, 12 and -1 has been dumped and recovered.
C27_Witness ==
  /\ RoundTrip
  /\ fac.cls = "SingleObjectiveExperimenterFactory"
  /\ fac.recovered.ok
  /\ ~fac.factory.shift.is_none
  /\ ~fac.factory.noise_type.is_none
  /\ DOMAIN fac.recovered.val.discrete_dict = {0, 12}
  /\ DOMAIN fac.recovered.val.categorical_dict = {-1}
  /\ DOMAIN fac.metadata = {BBOB_FACTORY_KEY, SINGLE_OBJECTIVE_FACTORY_KEY}

====
